---- MODULE Spec2Model ----
(***************************************************************************)
(* SREM.sa Real Estate Deeds Bridge: the trust-gated bridge protocol.      *)
(*                                                                         *)
(* Two execution contexts that share nothing and talk by messages:         *)
(*   - the bridge content script (extension/bridge_content.js), which      *)
(*     receives window "message" events of the page and posts replies;     *)
(*   - the mediator (extension/background.js), which owns the domain       *)
(*     whitelist, the approval flows, the credential and the remote calls. *)
(* Every page message (and every external runtime message) is a request    *)
(* instance i \in Reqs; the closures the code creates for it (callbacks,   *)
(* timers, listeners, the promise of its approval flow) are its fields.    *)
(***************************************************************************)
EXTENDS Integers, Sequences, FiniteSets, TLC

\* ------------------------------------------------------------------ bounds
MaxReq == 2          \* page / external messages in one behaviour
DayTicks == 2        \* resolution of the clock: ticks of Date.now() in a day
MaxDays == 2         \* longest duration approve is called with directly
MaxUses == 2         \* isApproved calls counted in the uses field of an entry
MaxLen == 3          \* longest deedNumbers string the parser is explored with
SweepTicks == 2      \* ticks between two runs of the pendingRequests sweep (60 s)
MaxAgeTicks == 3     \* ticks a pendingRequests entry may age before a sweep drops it (5 min)

\* ------------------------------------------------------- program constants
DurationDays == 60   \* handleDomainApprovalResponse: whitelist.approve(origin, 60)
MaxDeeds == 50       \* docs/API_REFERENCE.md, Rate Limits: deeds per search request

Reqs == 1..MaxReq
Durations == 1..MaxDays
\* the clock runs until every entry made in the first tick has expired
MaxNow == MaxDays * DayTicks + 2
Origins == {"https://a.example", "https://b.example"}
Wildcard == "*"
ExtensionOrigin == "chrome-extension://srem"
Undefined == "undefined"
Null == "null"
NoToken == "none"
AccessToken == "bearer-token"

\* ------------------------------------------------------------ JS strings
\* deedNumbers is a sequence of one-character strings, so that trim and
\* split work on it as they do in the code.
Whitespace == {" ", "\n", "\r", "\t"}
Separators == {",", ";", ":"} \cup Whitespace

RECURSIVE trimStart(_)
trimStart(s) ==
  IF s = <<>> THEN <<>>
  ELSE IF Head(s) \in Whitespace THEN trimStart(Tail(s)) ELSE s

RECURSIVE trimEnd(_)
trimEnd(s) ==
  IF s = <<>> THEN <<>>
  ELSE IF s[Len(s)] \in Whitespace THEN trimEnd(SubSeq(s, 1, Len(s) - 1)) ELSE s

trim(s) == trimEnd(trimStart(s))

\* String.prototype.split(/[,;\s:\n\r]+/): the pieces between maximal runs of
\* separators, an empty piece at either end when the string starts or ends
\* with a separator.
split(s) ==
  LET n == Len(s)
      Starts == {k \in 1..n : /\ s[k] \notin Separators
                              /\ (IF k = 1 THEN TRUE ELSE s[k - 1] \in Separators)}
      Start(m) == CHOOSE k \in Starts : Cardinality({j \in Starts : j < k}) = m - 1
      End(k) == CHOOSE e \in k..n :
                  /\ \A j \in k..e : s[j] \notin Separators
                  /\ (IF e = n THEN TRUE ELSE s[e + 1] \in Separators)
      runs == [m \in 1..Cardinality(Starts) |-> SubSeq(s, Start(m), End(Start(m)))]
  IN
  IF n = 0 THEN << <<>> >>
  ELSE (IF s[1] \in Separators THEN << <<>> >> ELSE <<>>)
       \o runs
       \o (IF s[n] \in Separators THEN << <<>> >> ELSE <<>>)

\* a filter that keeps every piece
filterNothing(ts) == ts

RECURSIVE filterNonEmpty(_)
filterNonEmpty(ts) ==
  IF ts = <<>> THEN <<>>
  ELSE IF Len(Head(ts)) > 0 THEN <<Head(ts)>> \o filterNonEmpty(Tail(ts))
       ELSE filterNonEmpty(Tail(ts))

\* RequestBuilder.parseDeedNumbers
parseDeedNumbers(deedNumbersString) ==
  LET pieces == split(deedNumbersString) IN
  IF deedNumbersString = <<>> THEN <<>>
  ELSE filterNonEmpty([k \in 1..Len(pieces) |-> trim(pieces[k])])

\* ------------------------------------------------------- request inputs
\* event.data of a page message. `present` names the fields the page set;
\* a field that is not present is undefined in the code.
\* A date component as the page sets it: '' (EmptyText), a string that does
\* not start with a number (Letters), or the decimal string of a natural.
EmptyText == [kind |-> "empty", n |-> 0]
Letters == [kind |-> "letters", n |-> 0]
Numeral(n) == [kind |-> "numeral", n |-> n]

\* parseInt(str) and isNaN(parseInt(str))
parseInt(str) == [nan |-> str.kind # "numeral", n |-> str.n]

NoDate == [deedDateYear |-> EmptyText, deedDateMonth |-> EmptyText,
           deedDateDay |-> EmptyText, isHijriDate |-> FALSE]

RawData(present, requestId, deedNumbers, searchMode, ownerIdType, ownerId) ==
  [present |-> present, requestId |-> requestId, deedNumbers |-> deedNumbers,
   searchMode |-> searchMode, ownerIdType |-> ownerIdType, ownerId |-> ownerId,
   date |-> NoDate]

DateFields == {"deedDateYear", "deedDateMonth", "deedDateDay", "isHijriDate"}

\* event.data with the date fields named in `present` set as well
WithDate(raw, present, year, month, day, isHijriDate) ==
  [raw EXCEPT !.present = @ \cup present,
              !.date = [deedDateYear |-> year, deedDateMonth |-> month,
                        deedDateDay |-> day, isHijriDate |-> isHijriDate]]

NoData == RawData({}, "", <<>>, "", 0, "")

OwnerFields == {"requestId", "deedNumbers", "searchMode", "ownerIdType", "ownerId"}

LookupInputs ==
  { RawData(OwnerFields, "r1", <<"1", ",", "2">>, "owner", 1, "1234567890"),
    RawData(OwnerFields, "r2", <<"1">>, "owner", 1, "1234567890"),
    RawData(OwnerFields \ {"requestId"}, "", <<"1">>, "owner", 1, "1234567890"),
    RawData(OwnerFields, "r1", <<" ">>, "owner", 1, "1234567890") }

\* event.data of the lookup requests the validation is explored with: every
\* field present or absent, well-formed or not
ValidationInputs ==
  { RawData(present, requestId, deedNumbers, searchMode, ownerIdType, ownerId) :
      present \in {OwnerFields \ absent : absent \in SUBSET {"requestId", "searchMode"}},
      requestId \in {"r1"},
      deedNumbers \in {<<"1">>, <<",">>, <<" ">>},
      searchMode \in {"owner", "date", "other"},
      ownerIdType \in {1, 3},
      ownerId \in {"1234567890", ""} }
  \* ... requests that set date fields, with and without the owner fields
  \cup
  { WithDate(RawData(present, "r1", <<"1">>, searchMode, 1, "1234567890"),
             DateFields, year, month, day, isHijriDate) :
      present \in {OwnerFields, OwnerFields \ {"ownerIdType", "ownerId"}},
      searchMode \in {"date"},
      year \in {Numeral(2024), Numeral(1445), Letters, EmptyText},
      month \in {Numeral(1), Numeral(13)},
      day \in {Numeral(15), Numeral(0), EmptyText},
      isHijriDate \in BOOLEAN }
  \* ... owner requests with date fields set, or without ownerIdType
  \cup
  { WithDate(RawData(OwnerFields, "r1", <<"1">>, "owner", 1, "1234567890"),
             DateFields, Numeral(2024), Numeral(1), Numeral(15), FALSE),
    RawData(OwnerFields \ {"ownerIdType"}, "r1", <<"1">>, "owner", 1, "1234567890") }

\* deedNumbers strings: every string of up to MaxLen characters over two
\* digits and two separators, and a longer string with the other separators
Strings(n) == UNION {[1..k -> {"1", "2", ",", " "}] : k \in 0..n}

ExampleString ==
  <<"1", "2", "3", ",", " ", "4", "5", "6", ";", "7", "8", "9", ":", " ", " ",
    "0", "1", "2">>

AuthInputs == { RawData({"requestId"}, "r1", <<>>, "", 0, "") }

RequestIds == {"r1", "r2"}

\* RequestBuilder._safeString / _safeNumber
safeString(raw, field, value, defaultValue) ==
  IF field \in raw.present THEN value ELSE defaultValue

safeNumber(raw, field, value, defaultValue) ==
  IF field \in raw.present THEN value ELSE defaultValue

\* RequestBuilder.extractAllParameters (timestamp, which nothing reads, is
\* left out)
extractAllParameters(raw) ==
  [requestId     |-> safeString(raw, "requestId", raw.requestId, ""),
   deedNumbers   |-> IF "deedNumbers" \in raw.present THEN raw.deedNumbers ELSE <<>>,
   searchMode    |-> safeString(raw, "searchMode", raw.searchMode, "owner"),
   ownerIdType   |-> safeNumber(raw, "ownerIdType", raw.ownerIdType, 1),
   ownerId       |-> safeString(raw, "ownerId", raw.ownerId, ""),
   deedDateYear  |-> safeString(raw, "deedDateYear", raw.date.deedDateYear, EmptyText),
   deedDateMonth |-> safeString(raw, "deedDateMonth", raw.date.deedDateMonth, EmptyText),
   deedDateDay   |-> safeString(raw, "deedDateDay", raw.date.deedDateDay, EmptyText),
   isHijriDate   |-> "isHijriDate" \in raw.present /\ raw.date.isHijriDate]

\* !str || str.trim() === ''
isBlank(str) == str \in {"", " "}

\* RequestBuilder.validateAndBuildRequest: the error of the year, if any
yearErrors(params) ==
  LET year == parseInt(params.deedDateYear)
      isHijri == params.isHijriDate
  IN
  IF params.deedDateYear = EmptyText \/ year.nan
  THEN <<"Valid deed date year is required for date search">>
  ELSE IF isHijri /\ (year.n < 1400 \/ year.n > 1500)
  THEN <<"Valid Hijri year (1400-1500) is required for Hijri date search">>
  ELSE IF ~isHijri /\ (year.n < 1900 \/ year.n > 2100)
  THEN <<"Valid Gregorian year (1900-2100) is required for Gregorian date search">>
  ELSE <<>>

\* !str || isNaN(n) || n < low || n > high
outOfRange(str, low, high) ==
  \/ str = EmptyText
  \/ parseInt(str).nan
  \/ parseInt(str).n < low
  \/ parseInt(str).n > high

\* RequestBuilder.validateAndBuildRequest: the errors it collects
validationErrors(raw) ==
  LET params == extractAllParameters(raw) IN
    (IF trim(params.deedNumbers) = <<>> THEN <<"Deed numbers are required">> ELSE <<>>)
    \o (IF isBlank(params.requestId) THEN <<"Request ID is required">> ELSE <<>>)
    \o (IF params.searchMode \notin {"owner", "date"}
        THEN <<"Search mode must be either \"owner\" or \"date\"">> ELSE <<>>)
    \o (IF params.searchMode = "owner" /\ isBlank(params.ownerId)
        THEN <<"Owner ID is required for owner search">> ELSE <<>>)
    \o (IF params.searchMode = "owner" /\ params.ownerIdType \notin {1, 2, 5}
        THEN <<"Owner ID type must be 1 (National), 2 (Iqama), or 5 (Commercial)">>
        ELSE <<>>)
    \o (IF params.searchMode = "date" THEN yearErrors(params) ELSE <<>>)
    \o (IF params.searchMode = "date" /\ outOfRange(params.deedDateMonth, 1, 12)
        THEN <<"Valid deed date month (1-12) is required for date search">> ELSE <<>>)
    \o (IF params.searchMode = "date" /\ outOfRange(params.deedDateDay, 1, 31)
        THEN <<"Valid deed date day (1-31) is required for date search">> ELSE <<>>)

\* ... and what it returns: data is null when there are errors
validateAndBuildRequest(raw) ==
  [success |-> validationErrors(raw) = <<>>,
   errors  |-> validationErrors(raw),
   data    |-> IF validationErrors(raw) = <<>> THEN extractAllParameters(raw) ELSE Null]


\* ------------------------------------------------------------ JS values
\* A value handed to a callback: an object (always truthy), a boolean, or
\* undefined. The content script tests such values with `if (approved)`.
Truthy(v) == v.type = "object" \/ (v.type = "boolean" /\ v.value)

\* ------------------------------------------------- trust store (mediator)
NoEntry == [approved |-> -1, expires |-> -1, days |-> 0, uses |-> 0, lastUsed |-> -1]

\* DomainWhitelist.isApproved: the value it returns ...
isApproved(dom, origin, t) ==
  /\ dom[origin] # NoEntry
  /\ ~(t > dom[origin].expires)

\* an isApproved that starts the period of the entry anew with every use
isApprovedRenews(dom, origin, t) ==
  IF dom[origin] = NoEntry THEN dom
  ELSE IF t > dom[origin].expires THEN [dom EXCEPT ![origin] = NoEntry]
  ELSE [dom EXCEPT ![origin].approved = t,
                   ![origin].expires = t + dom[origin].days * DayTicks,
                   ![origin].lastUsed = t, ![origin].uses = @ + 1]

\* ... and the store it leaves behind
isApprovedEffect(dom, origin, t) ==
  IF dom[origin] = NoEntry THEN dom
  ELSE IF t > dom[origin].expires THEN [dom EXCEPT ![origin] = NoEntry]
  ELSE [dom EXCEPT ![origin].lastUsed = t, ![origin].uses = @ + 1]

\* an approve that adds the days to the clock as they are
approveTicks(dom, origin, days, t) ==
  [dom EXCEPT ![origin] =
     [approved |-> t, expires |-> t + days, days |-> days, uses |-> 0, lastUsed |-> t]]

\* DomainWhitelist.approve
approve(dom, origin, days, t) ==
  [dom EXCEPT ![origin] =
     [approved |-> t, expires |-> t + days * DayTicks, days |-> days, uses |-> 0,
      lastUsed |-> t]]

\* DomainWhitelist.remove / clear / cleanup
remove(dom, origin) == [dom EXCEPT ![origin] = NoEntry]

clear(dom) == [o \in DOMAIN dom |-> NoEntry]

cleanup(dom, t) ==
  [o \in DOMAIN dom |-> IF dom[o] # NoEntry /\ t > dom[o].expires THEN NoEntry ELSE dom[o]]

\* Math.ceil(a / b), b > 0
ceil(a, b) == (a + b - 1) \div b

\* DomainWhitelist.list: cleanup(), then one row for every entry left. The
\* rows are a set here: their order (insertion order of the Map) is not kept.
list(dom, t) ==
  { [origin   |-> o,
     approved |-> cleanup(dom, t)[o].approved,
     expires  |-> cleanup(dom, t)[o].expires,
     daysLeft |-> ceil(cleanup(dom, t)[o].expires - t, DayTicks),
     uses     |-> cleanup(dom, t)[o].uses] :
    o \in {d \in DOMAIN dom : cleanup(dom, t)[d] # NoEntry} }

\* ----------------------------------------------- approval flow (mediator)
\* new Date(ms).toISOString(): the instant as a string, which names the
\* instant and is not a number
toISOString(ms) == <<"ISO-8601", ms>>

\* The value a requestApproval promise resolves to.
ApprovalResult(approved, reason, expiresAt) ==
  [type |-> "object", approved |-> approved, reason |-> reason, expiresAt |-> expiresAt]

Unresolved == [type |-> "undefined", approved |-> FALSE, reason |-> "none", expiresAt |-> -1]

NoFlow == [st |-> "none", timer |-> "none", win |-> "none", dec |-> "none",
           result |-> Unresolved]

\* resolve(...) of `new Promise((resolve) => ...)`: a promise settles once,
\* later calls of resolve are ignored.
Resolve(f, value) == IF f.result = Unresolved THEN [f EXCEPT !.result = value] ELSE f

\* clearTimeout(pendingRequest.timeout): stops a timer that has not fired
ClearTimer(f) == IF f.timer = "armed" THEN [f EXCEPT !.timer = "cleared"] ELSE f

\* ------------------------------------------------ credential (mediator)
NoStatus == [type |-> "undefined", authenticated |-> FALSE, status |-> "",
             message |-> "", token |-> NoToken]

\* getAuthStatus: what it returns for a logged-in / logged-out SREM tab
getAuthStatus(tok) ==
  IF tok # NoToken
  THEN [type |-> "object", authenticated |-> TRUE, status |-> "valid",
        message |-> "Connected to SREM", token |-> tok]
  ELSE [type |-> "object", authenticated |-> FALSE, status |-> "invalid",
        message |-> "Not connected to SREM. Please login first.", token |-> NoToken]

ErrorStatus == [type |-> "object", authenticated |-> FALSE, status |-> "error",
                message |-> "Error checking status", token |-> NoToken]

\* checkAndBroadcastAuthStatus: statusChanged
statusChanged(last, current) ==
  \/ last = NoStatus
  \/ last.authenticated # current.authenticated
  \/ last.message # current.message

\* checkAndBroadcastAuthStatus: the authStatusUpdate message sent to the
\* extension's own pages
broadcastMessage(current) ==
  [type |-> "authStatusUpdate", authenticated |-> current.authenticated,
   status |-> current.status, message |-> current.message, token |-> NoToken]

NoBroadcast == [type |-> "none", authenticated |-> FALSE, status |-> "",
                message |-> "", token |-> NoToken]

\* ------------------------------------------------ remote calls (mediator)
\* SREM_API.getDeedByOwnerUrl / getDeedByNumberUrl
getDeedByOwnerUrl ==
  "https://prod-inquiryservice-srem.moj.gov.sa/api/v1/DeedInquiry/GetDeedByOwner"

getDeedByNumberUrl ==
  "https://prod-inquiryservice-srem.moj.gov.sa/api/v1/DeedInquiry/GetDeedByNumber"

\* String.prototype.trim of the owner identifiers the model uses
trimText(str) == IF str = " " THEN "" ELSE str

\* a payload with the fields of both modes
buildApiPayloadAllFields(params, deedNumber) ==
  [apiUrl  |-> IF params.searchMode = "date" THEN getDeedByNumberUrl
               ELSE getDeedByOwnerUrl,
   payload |-> [deedNumber    |-> trim(deedNumber),
                deedDateYear  |-> parseInt(params.deedDateYear),
                deedDateMonth |-> parseInt(params.deedDateMonth),
                deedDateDay   |-> parseInt(params.deedDateDay),
                isHijriDate   |-> params.isHijriDate,
                idType        |-> params.ownerIdType,
                idNumber      |-> trimText(params.ownerId)]]

\* RequestBuilder.buildApiPayload (parseInt of ownerIdType, which
\* _safeNumber made a number, is that number)
buildApiPayload(params, deedNumber) ==
  IF params.searchMode = "date"
  THEN [apiUrl  |-> getDeedByNumberUrl,
        payload |-> [deedNumber    |-> trim(deedNumber),
                     deedDateYear  |-> parseInt(params.deedDateYear),
                     deedDateMonth |-> parseInt(params.deedDateMonth),
                     deedDateDay   |-> parseInt(params.deedDateDay),
                     isHijriDate   |-> params.isHijriDate]]
  ELSE [apiUrl  |-> getDeedByOwnerUrl,
        payload |-> [deedNumber |-> trim(deedNumber),
                     idType     |-> params.ownerIdType,
                     idNumber   |-> trimText(params.ownerId)]]

\* no remote call
NoCall == [apiUrl |-> "", payload |-> [deedNumber |-> <<>>]]

\* null: the data of a failed call, and a JSON body that is null
NullData == [isNull |-> TRUE, IsSuccess |-> "undefined", ErrorList |-> <<>>,
             ErrorDescription |-> "", deed |-> <<>>]

\* data = await response.json(): an object with the provider's flag IsSuccess
\* ("true", "false", "1" for a value that is truthy and not true, "undefined"
\* when absent), ErrorList and ErrorDetails[0].ErrorDescription ("" when
\* absent)
Payload(deedNumber, isSuccess, errorList, errorDescription) ==
  [isNull |-> FALSE, IsSuccess |-> isSuccess, ErrorList |-> errorList,
   ErrorDescription |-> errorDescription, deed |-> deedNumber]

\* every way one remote call can end
AllFetchOutcomes ==
  {"ok", "provider_error", "provider_details", "provider_no_detail", "provider_no_flag",
   "provider_truthy", "json_null", "http_401", "http_503", "http_500", "http_404",
   "http_other", "invalid_json", "network_error"}

\* the outcomes the bridge specification explores
FetchOutcomes == {"ok", "http_401"}

\* response.status, 0 when fetch itself threw
Status(outcome) ==
  CASE outcome = "network_error" -> 0
    [] outcome = "http_401" -> 401
    [] outcome = "http_503" -> 503
    [] outcome = "http_500" -> 500
    [] outcome = "http_404" -> 404
    [] outcome = "http_other" -> 403
    [] OTHER -> 200

\* response.ok
HttpOk(outcome) == Status(outcome) >= 200 /\ Status(outcome) <= 299

\* response.json() of an ok response
Body(deedNumber, outcome) ==
  CASE outcome = "ok" -> Payload(deedNumber, "true", <<>>, "")
    [] outcome = "provider_error" ->
         Payload(deedNumber, "false", <<"ErrorList[0]">>, "ErrorDescription")
    [] outcome = "provider_details" -> Payload(deedNumber, "false", <<>>, "ErrorDescription")
    [] outcome = "provider_no_detail" -> Payload(deedNumber, "false", <<>>, "")
    [] outcome = "provider_no_flag" -> Payload(deedNumber, "undefined", <<>>, "")
    [] outcome = "provider_truthy" -> Payload(deedNumber, "1", <<>>, "")
    [] OTHER -> NullData

\* handleDeedRequest: the error thrown inside the loop body, Null when none
Thrown(outcome) ==
  CASE outcome = "network_error" -> "Failed to fetch"
    [] Status(outcome) = 401 -> "Authentication expired. Please login to SREM again."
    [] Status(outcome) = 503 ->
         "SREM service is temporarily unavailable (503). Please try again later."
    [] Status(outcome) = 500 -> "SREM internal server error (500). Please try again later."
    [] Status(outcome) = 404 ->
         "SREM API endpoint not found (404). Please check your request."
    [] ~HttpOk(outcome) -> "SREM API error: HTTP status"
    [] outcome = "invalid_json" -> "SREM API returned invalid JSON response"
    [] OTHER -> Null

\* an entry that takes any truthy IsSuccess for a success
DeedResultTruthy(deedNumber, outcome) ==
  LET data == Body(deedNumber, outcome)
      overallSuccess == HttpOk(outcome) /\ data.IsSuccess \in {"true", "1"}
  IN
  IF Thrown(outcome) # Null
  THEN [deedNumber |-> trim(deedNumber), success |-> FALSE, data |-> NullData,
        error |-> Thrown(outcome)]
  ELSE [deedNumber |-> trim(deedNumber), success |-> overallSuccess, data |-> data,
        error |-> IF overallSuccess THEN Null ELSE "Unknown SREM error"]

\* handleDeedRequest: the entry pushed to results for one deed number
DeedResult(deedNumber, outcome) ==
  LET data == Body(deedNumber, outcome)
      isHttpOk == HttpOk(outcome)
      isSremSuccess == data.IsSuccess = "true"
      overallSuccess == isHttpOk /\ isSremSuccess
  IN
  IF Thrown(outcome) # Null
  THEN [deedNumber |-> trim(deedNumber),
        success    |-> FALSE,
        data       |-> NullData,
        error      |-> Thrown(outcome)]
  ELSE [deedNumber |-> trim(deedNumber),
        success    |-> overallSuccess,
        data       |-> IF isHttpOk THEN data ELSE NullData,
        error      |-> IF overallSuccess THEN Null
                       ELSE IF ~isHttpOk THEN "HTTP status"
                       ELSE IF data.ErrorList # <<>> THEN data.ErrorList[1]
                       ELSE IF data.ErrorDescription # "" THEN data.ErrorDescription
                       ELSE "Unknown SREM error"]

\* --------------------------------------------------- response formatting
RECURSIVE SelectSeq2(_, _)
SelectSeq2(s, keep) ==
  IF s = <<>> THEN <<>>
  ELSE IF Head(s) \in keep THEN <<Head(s)>> \o SelectSeq2(Tail(s), keep)
       ELSE SelectSeq2(Tail(s), keep)

Range(s) == {s[k] : k \in 1..Len(s)}

successfulWithData(sremResults) ==
  SelectSeq2(sremResults, {r \in Range(sremResults) : r.success /\ ~r.data.isNull})

successfulResults(sremResults) ==
  SelectSeq2(sremResults, {r \in Range(sremResults) : r.success})

failedResults(sremResults) ==
  SelectSeq2(sremResults, {r \in Range(sremResults) : ~r.success})

\* a message that is the first error whatever the number of failures
buildErrorMessageFirst(failed) ==
  IF Len(failed) = 0 THEN Null ELSE failed[1].error

\* ResponseFormatter._buildErrorMessage
buildErrorMessage(failed) ==
  IF Len(failed) = 0 THEN Null
  ELSE IF Len(failed) = 1 THEN failed[1].error
  ELSE ToString(Len(failed)) \o " deeds failed. First error: " \o failed[1].error

NoMetadata ==
  [totalRequested |-> 0, totalSuccessful |-> 0, totalFailed |-> 0, failures |-> <<>>]

\* A message as the page (or an external sender) receives it. `target` is
\* the targetOrigin argument of window.postMessage.
PageMsg ==
  [type |-> "", target |-> "", requestId |-> "", success |-> FALSE, result |-> <<>>,
   error |-> Null, authStatus |-> "", metadata |-> NoMetadata,
   approved |-> FALSE, reason |-> "", expiresAt |-> -1,
   authenticated |-> FALSE, status |-> "", message |-> "", token |-> NoToken]

\* an artifact that wraps every payload in an object of its own
formatDataResponseWrapped(sremResults) ==
  LET ok == successfulWithData(sremResults) IN
  [result |-> [k \in 1..Len(ok) |-> [data |-> ok[k].data]]]

\* ResponseFormatter.formatDataResponse
formatDataResponse(sremResults) ==
  LET ok == successfulWithData(sremResults) IN
  [result |-> [k \in 1..Len(ok) |-> ok[k].data]]

\* a reply that counts every item as failed
formatBridgeResponseAllFailed(requestId, sremResults, authStatus) ==
  LET ok == successfulWithData(sremResults)
      failed == sremResults
  IN [PageMsg EXCEPT
        !.type = "SREM_BRIDGE_RESPONSE",
        !.requestId = requestId,
        !.success = Len(ok) > 0,
        !.result = [k \in 1..Len(ok) |-> ok[k].data],
        !.error = IF Len(ok) > 0 THEN Null ELSE buildErrorMessage(failed),
        !.authStatus = authStatus,
        !.metadata = [totalRequested |-> Len(sremResults),
                      totalSuccessful |-> Len(ok),
                      totalFailed |-> Len(failed),
                      failures |-> [k \in 1..Len(failed) |->
                                      [deedNumber |-> failed[k].deedNumber,
                                       error |-> failed[k].error]]]]

\* ResponseFormatter.formatBridgeResponse
formatBridgeResponse(requestId, sremResults, authStatus) ==
  LET ok == successfulWithData(sremResults)
      failed == failedResults(sremResults)
  IN [PageMsg EXCEPT
        !.type = "SREM_BRIDGE_RESPONSE",
        !.requestId = requestId,
        !.success = Len(ok) > 0,
        !.result = [k \in 1..Len(ok) |-> ok[k].data],
        !.error = IF Len(ok) > 0 THEN Null ELSE buildErrorMessage(failed),
        !.authStatus = authStatus,
        !.metadata = [totalRequested |-> Len(sremResults),
                      totalSuccessful |-> Len(ok),
                      totalFailed |-> Len(failed),
                      failures |-> [k \in 1..Len(failed) |->
                                      [deedNumber |-> failed[k].deedNumber,
                                       error |-> failed[k].error]]]]

\* a formatBridgeError that leaves authStatus at its default
formatBridgeErrorDefault(requestId, error, authStatus) ==
  [PageMsg EXCEPT
     !.type = "SREM_BRIDGE_RESPONSE", !.requestId = requestId, !.success = FALSE,
     !.result = <<>>, !.error = error, !.authStatus = "error"]

\* ResponseFormatter.formatBridgeError
formatBridgeError(requestId, error, authStatus) ==
  [PageMsg EXCEPT
     !.type = "SREM_BRIDGE_RESPONSE", !.requestId = requestId, !.success = FALSE,
     !.result = <<>>, !.error = error, !.authStatus = authStatus]

\* The value handleDeedRequest passes to sendResponse. authStatus is
\* Undefined where the code leaves the field out.
InternalResponse(success, results, error, authStatus) ==
  [type |-> "object", success |-> success, results |-> results, error |-> error,
   authStatus |-> authStatus]

NoResponse == [type |-> "undefined", success |-> FALSE, results |-> <<>>,
               error |-> Null, authStatus |-> Undefined]

\* ResponseFormatter.formatInternalResponse
formatInternalResponse(sremResults, authStatus) ==
  InternalResponse(Len(successfulResults(sremResults)) > 0, sremResults,
                   IF Len(successfulResults(sremResults)) > 0 THEN Null
                   ELSE buildErrorMessage(failedResults(sremResults)),
                   authStatus)

\* AuthResponseBuilder.buildAuthResponse
buildAuthResponse(requestId, authenticated, status, message, targetOrigin) ==
  [PageMsg EXCEPT
     !.type = "SREM_AUTH_STATUS_RESPONSE", !.requestId = requestId,
     !.authenticated = authenticated, !.status = status, !.message = message,
     !.target = targetOrigin]

\* AuthResponseBuilder.buildAuthError
buildAuthError(requestId, errorMessage, targetOrigin) ==
  buildAuthResponse(requestId, FALSE, "error", errorMessage, targetOrigin)

\* AuthResponseBuilder.fromChromeResponse
fromChromeResponse(requestId, chromeResponse, targetOrigin) ==
  IF ~Truthy(chromeResponse)
  THEN buildAuthError(requestId, "No response from extension", targetOrigin)
  ELSE buildAuthResponse(requestId, chromeResponse.authenticated,
                         IF chromeResponse.status = "" THEN "unknown"
                         ELSE chromeResponse.status,
                         IF chromeResponse.message = "" THEN "Unknown status"
                         ELSE chromeResponse.message,
                         targetOrigin)


\* =================================================================== state
VARIABLES
  now,              \* Date.now(), in ticks
  session,          \* the bearer token of the SREM tab, or NoToken
  domains,          \* whitelist.domains: origin -> entry
  storage,          \* chrome.storage.local "whitelist"
  load,             \* whitelist.init(): the chrome.storage.local.get it awaits
  pendingApprovals, \* pendingApprovals: origin -> the flow it stores (0: no entry)
  lastAuthStatus,   \* lastAuthStatus of the mediator
  broadcast,        \* the last authStatusUpdate message broadcast
  msg,              \* request i: the message event (kind, origin, data)
  cpc,              \* request i: where the content script stands
  helper,           \* request i: responded / timeoutId of its sendMessageSafely call
  pendingRequests,  \* content script: requestId -> origin, timestamp
  flow,             \* request i: the requestApproval invocation made for it
  job,              \* request i: the handleDeedRequest invocation made for it
  resp,             \* request i: the answer to its getAuthStatus message
  posted            \* request i: the messages posted back for it, in order

vars == <<now, session, domains, storage, load, pendingApprovals, lastAuthStatus,
          broadcast, msg, cpc, helper, pendingRequests, flow, job, resp, posted>>

mediatorVars == <<domains, storage, load, pendingApprovals, flow>>
authVars == <<lastAuthStatus, broadcast>>

NoMsg == [kind |-> "none", origin |-> "", data |-> NoData]
NoRoute == [origin |-> "", timestamp |-> -1]
NoHelper == [responded |-> FALSE, timer |-> FALSE, delivered |-> FALSE]

NoJob == [st |-> "none", params |-> extractAllParameters(NoData), deeds |-> <<>>,
          idx |-> 0, inflight |-> FALSE, token |-> NoToken, call |-> NoCall,
          results |-> <<>>, response |-> NoResponse]

Init ==
  /\ now = 0
  /\ session = NoToken
  /\ domains = [o \in Origins |-> NoEntry]
  /\ storage = [o \in Origins |-> NoEntry]
  \* init() has nothing to wait for: on first install nothing is stored
  /\ load = [pending |-> FALSE, exists |-> FALSE, whitelist |-> [o \in Origins |-> NoEntry]]
  /\ pendingApprovals = [o \in Origins |-> 0]
  /\ lastAuthStatus = NoStatus
  /\ broadcast = NoBroadcast
  /\ msg = [i \in Reqs |-> NoMsg]
  /\ cpc = [i \in Reqs |-> "idle"]
  /\ helper = [i \in Reqs |-> NoHelper]
  /\ pendingRequests = [r \in RequestIds |-> NoRoute]
  /\ flow = [i \in Reqs |-> NoFlow]
  /\ job = [i \in Reqs |-> NoJob]
  /\ resp = [i \in Reqs |-> NoStatus]
  /\ posted = [i \in Reqs |-> <<>>]

\* Requests are numbered in the order the messages arrive.
Fresh(i) == cpc[i] = "idle" /\ (IF i = 1 THEN TRUE ELSE cpc[i - 1] # "idle")

\* window.postMessage(message, targetOrigin) made for request i
Post(i, message, targetOrigin) ==
  posted' = [posted EXCEPT ![i] = Append(@, [message EXCEPT !.target = targetOrigin])]

\* const targetOrigin = requestInfo?.origin || "*"
RouteTarget(requestId) ==
  IF pendingRequests[requestId] # NoRoute THEN pendingRequests[requestId].origin
  ELSE Wildcard

\* ChromeRuntimeHelper.sendMessageSafely: the timer is set, the message sent
sendMessageSafely == [responded |-> FALSE, timer |-> TRUE, delivered |-> FALSE]

\* ... `if (!responded)` of its timer callback
HelperTimerFires(h) == ~h.responded

\* a response callback that runs the caller's callback whatever responded says
HelperAcceptsAlways(h) == TRUE

\* ... `if (responded) return` of its response callback
HelperAccepts(h) == ~h.responded

\* ... the timer callback has run
TimerFired(h) == [h EXCEPT !.timer = FALSE, !.responded = TRUE]

\* ... the response callback has run: clearTimeout(timeoutId) unless the
\* timer callback ran the caller's callback before
ResponseDelivered(h) ==
  IF HelperAccepts(h) THEN [h EXCEPT !.delivered = TRUE, !.responded = TRUE, !.timer = FALSE]
  ELSE [h EXCEPT !.delivered = TRUE]

\* ============================================================ the mediator
\* A runtime message of the content script is delivered in the step that
\* sends it: the two contexts share no state, and nothing the content script
\* does between the sending and the delivery reaches the mediator first.

\* onMessage, "checkDomainApproval" / "requestDomainApproval":
\* whitelist.requestApproval up to chrome.windows.create
requestApproval(i, origin) ==
  /\ domains' = isApprovedEffect(domains, origin, now)
  /\ storage' = IF domains[origin] = NoEntry THEN storage ELSE domains'
  /\ IF isApproved(domains, origin, now)
     THEN flow' = [flow EXCEPT ![i] =
                     Resolve([@ EXCEPT !.st = "short"],
                             ApprovalResult(TRUE, "already_approved",
                                            toISOString(domains[origin].expires)))]
     ELSE flow' = [flow EXCEPT ![i].st = "creating"]
  /\ UNCHANGED <<pendingApprovals, load>>

\* requestApproval: the callback of chrome.windows.create
PopupCreated(i, created) ==
  /\ flow[i].st = "creating"
  /\ IF ~created
     THEN /\ flow' = [flow EXCEPT ![i] =
                        Resolve([@ EXCEPT !.st = "failed"],
                                ApprovalResult(FALSE, "popup_creation_failed", -1))]
          /\ UNCHANGED pendingApprovals
     ELSE /\ flow' = [flow EXCEPT ![i] =
                        [@ EXCEPT !.st = "open", !.timer = "armed", !.win = "open"]]
          /\ pendingApprovals' = [pendingApprovals EXCEPT ![msg[i].origin] = i]
  /\ UNCHANGED <<now, session, domains, storage, load, authVars, msg, cpc, helper,
                 pendingRequests, job, resp, posted>>

\* requestApproval: the 30-second timer callback of flow i
ApprovalTimeout(i) ==
  /\ flow[i].timer = "armed"
  /\ pendingApprovals' = [pendingApprovals EXCEPT ![msg[i].origin] = 0]
  /\ flow' = [flow EXCEPT ![i] =
                Resolve([@ EXCEPT !.timer = "fired"], ApprovalResult(FALSE, "timeout", -1))]
  /\ UNCHANGED <<now, session, domains, storage, load, authVars, msg, cpc, helper,
                 pendingRequests, job, resp, posted>>

\* requestApproval: windowCloseListener of flow i, for its own window
WindowRemoved(i) ==
  LET origin == msg[i].origin
      stored == pendingApprovals[origin]
  IN
  /\ flow[i].win = "open"
  /\ IF stored # 0
     THEN /\ pendingApprovals' = [pendingApprovals EXCEPT ![origin] = 0]
          /\ flow' = [j \in Reqs |->
               LET cleared == IF j = stored THEN ClearTimer(flow[j]) ELSE flow[j] IN
               IF j = i
               THEN Resolve([cleared EXCEPT !.win = "closed"],
                            ApprovalResult(FALSE, "popup_closed", -1))
               ELSE cleared]
     ELSE /\ flow' = [flow EXCEPT ![i].win = "closed"]
          /\ UNCHANGED pendingApprovals
  /\ UNCHANGED <<now, session, domains, storage, load, authVars, msg, cpc, helper,
                 pendingRequests, job, resp, posted>>

\* the "DOMAIN_APPROVAL" message: approval.js sends days: 60 with an approval
\* and no days (0 here) with a denial; the mediator accepts the message from
\* any extension context, whatever days it carries
DomainApproval(origin, approved, days) ==
  [type |-> "DOMAIN_APPROVAL", origin |-> origin, approved |-> approved, days |-> days]

\* approval.js approve() / deny() in the consent window of flow i send
\* "DOMAIN_APPROVAL"; onMessage runs handleDomainApprovalResponse with it.
\* The message is delivered in the step that sends it.
handleDomainApprovalResponse(i, approved) ==
  \E days \in {0, 1, DurationDays} :
  LET message == DomainApproval(msg[i].origin, approved, days)
      origin == message.origin
      stored == pendingApprovals[origin]
  IN
  /\ flow[i].win = "open"
  /\ flow[i].dec = "none"
  /\ IF stored # 0
     THEN /\ pendingApprovals' = [pendingApprovals EXCEPT ![origin] = 0]
          /\ domains' = IF approved THEN approve(domains, origin, DurationDays, now)
                        ELSE domains
          /\ storage' = IF approved THEN domains' ELSE storage
          /\ flow' = [j \in Reqs |->
               LET sent == IF j = i THEN [flow[j] EXCEPT !.dec = "sent"] ELSE flow[j] IN
               IF j = stored
               THEN Resolve(ClearTimer(sent),
                            IF approved
                            THEN ApprovalResult(TRUE, "user_approved",
                                                toISOString(domains'[origin].expires))
                            ELSE ApprovalResult(FALSE, "user_denied", -1))
               ELSE sent]
     ELSE /\ flow' = [flow EXCEPT ![i].dec = "sent"]
          /\ UNCHANGED <<pendingApprovals, domains, storage>>
  /\ UNCHANGED <<now, session, load, authVars, msg, cpc, helper, pendingRequests,
                 job, resp, posted>>

\* checkAndBroadcastAuthStatus: the status it returns and the cache and
\* broadcast it leaves. queried = FALSE: getAuthStatus threw.
checkAndBroadcastAuthStatus(queried) ==
  LET currentStatus == getAuthStatus(session) IN
  IF queried
  THEN [status |-> currentStatus,
        last   |-> IF statusChanged(lastAuthStatus, currentStatus)
                   THEN currentStatus ELSE lastAuthStatus,
        sent   |-> IF statusChanged(lastAuthStatus, currentStatus)
                   THEN broadcastMessage(currentStatus) ELSE broadcast]
  ELSE [status |-> IF lastAuthStatus # NoStatus THEN lastAuthStatus ELSE ErrorStatus,
        last   |-> lastAuthStatus,
        sent   |-> broadcast]

\* onMessage / onMessageExternal, "getAuthStatus"
OnGetAuthStatus(i, queried) ==
  LET r == checkAndBroadcastAuthStatus(queried) IN
  /\ resp' = [resp EXCEPT ![i] = r.status]
  /\ lastAuthStatus' = r.last
  /\ broadcast' = r.sent

\* setInterval(() => checkAndBroadcastAuthStatus("periodic_check"), 30000)
PeriodicCheck(queried) ==
  LET r == checkAndBroadcastAuthStatus(queried) IN
  /\ lastAuthStatus' = r.last
  /\ broadcast' = r.sent
  /\ <<lastAuthStatus', broadcast'>> # <<lastAuthStatus, broadcast>>
  /\ UNCHANGED <<now, session, mediatorVars, msg, cpc, helper, pendingRequests,
                 job, resp, posted>>

\* onMessage / onMessageExternal, "fetchDeeds": handleDeedRequest up to the
\* first remote call
handleDeedRequest(i, data) ==
  LET authStatus == getAuthStatus(session)
      params == extractAllParameters(data)
      deedList == parseDeedNumbers(params.deedNumbers)
  IN
  job' = [job EXCEPT ![i] =
       IF ~authStatus.authenticated
       THEN [NoJob EXCEPT !.st = "done",
               !.response = InternalResponse(FALSE, <<>>,
                              "Not authenticated. Please login to SREM first.", Undefined)]
       ELSE IF Len(deedList) = 0
       THEN [NoJob EXCEPT !.st = "done",
               !.response = InternalResponse(FALSE, <<>>,
                              "No valid deed numbers provided", Undefined)]
       ELSE [NoJob EXCEPT !.st = "running", !.params = params, !.deeds = deedList,
               !.idx = 1, !.inflight = TRUE, !.token = authStatus.token,
               !.call = buildApiPayload(params, deedList[1])]]

\* a loop that a failed item ends
FetchCompletesAborting(i, outcome) ==
  LET results == Append(job[i].results, DeedResult(job[i].deeds[job[i].idx], outcome)) IN
  /\ job[i].st = "running" /\ job[i].inflight
  /\ job' = [job EXCEPT ![i] =
       IF job[i].idx < Len(job[i].deeds) /\ results[Len(results)].success
       THEN [@ EXCEPT !.results = results, !.idx = @ + 1,
               !.call = buildApiPayload(job[i].params, job[i].deeds[job[i].idx + 1])]
       ELSE [@ EXCEPT !.results = results, !.inflight = FALSE, !.st = "done",
               !.call = NoCall,
               !.response = formatInternalResponse(results, "authenticated")]]
  /\ UNCHANGED <<now, session, mediatorVars, authVars, msg, cpc, helper,
                 pendingRequests, resp, posted>>

\* handleDeedRequest: one remote call ends; the next one is issued, or the
\* results are sent
FetchCompletes(i, outcome) ==
  LET results == Append(job[i].results, DeedResult(job[i].deeds[job[i].idx], outcome)) IN
  /\ job[i].st = "running" /\ job[i].inflight
  /\ job' = [job EXCEPT ![i] =
       IF job[i].idx < Len(job[i].deeds)
       THEN [@ EXCEPT !.results = results, !.idx = @ + 1,
               !.call = buildApiPayload(job[i].params, job[i].deeds[job[i].idx + 1])]
       ELSE [@ EXCEPT !.results = results, !.inflight = FALSE, !.st = "done",
               !.call = NoCall,
               !.response = formatInternalResponse(results, "authenticated")]]
  /\ UNCHANGED <<now, session, mediatorVars, authVars, msg, cpc, helper,
                 pendingRequests, resp, posted>>

\* popup: downloadAll, after the callback of its search stored the results
\* of a successful response in currentResults
downloadAll(i) ==
  LET currentResults == job[i].response.results
      resultsWithData == SelectSeq2(currentResults,
                                    {r \in Range(currentResults) : ~r.data.isNull})
      standardizedOutput == formatDataResponse(resultsWithData)
  IN
  /\ msg[i].kind = "extFetch" /\ msg[i].origin = ExtensionOrigin
  /\ cpc[i] = "done"
  /\ Len(posted[i]) = 1 /\ posted[i][1].success
  /\ Len(resultsWithData) > 0
  /\ Post(i, [PageMsg EXCEPT !.type = "download", !.result = standardizedOutput.result],
          ExtensionOrigin)
  /\ UNCHANGED <<now, session, mediatorVars, authVars, msg, cpc, helper,
                 pendingRequests, job, resp>>

\* The service worker, stopped while idle, is started again: the script runs
\* from the top. `new DomainWhitelist()` makes an empty Map and init() asks
\* chrome.storage.local for "whitelist"; storage serves its calls in the
\* order they were made, so that the answer is what is stored now. An empty
\* store is either no "whitelist" key at all or an empty object.
Restart ==
  /\ \A i \in Reqs : (flow[i].st = "none" \/ flow[i].result # Unresolved) /\ ~job[i].inflight
  /\ \E exists \in BOOLEAN :
       /\ (\E o \in Origins : storage[o] # NoEntry) => exists
       /\ load' = [pending |-> TRUE, exists |-> exists, whitelist |-> storage]
  /\ domains' = [o \in Origins |-> NoEntry]
  /\ pendingApprovals' = [o \in Origins |-> 0]
  /\ lastAuthStatus' = NoStatus
  /\ UNCHANGED <<now, session, storage, flow, broadcast, msg, cpc, helper,
                 pendingRequests, job, resp, posted>>

\* DomainWhitelist.init after its await: the answer of storage replaces the
\* Map, cleanup() drops the expired entries and saves
init ==
  /\ load.pending
  /\ load' = [load EXCEPT !.pending = FALSE]
  /\ IF load.exists
     THEN /\ domains' = cleanup(load.whitelist, now)
          /\ storage' = domains'
     ELSE UNCHANGED <<domains, storage>>
  /\ UNCHANGED <<now, session, pendingApprovals, flow, authVars, msg, cpc, helper,
                 pendingRequests, job, resp, posted>>

\* onMessage, "removeDomain" / "clearDomains" (popup)
RemoveDomain(origin) ==
  /\ domains[origin] # NoEntry \/ storage[origin] # NoEntry
  /\ domains' = remove(domains, origin)
  /\ storage' = domains'
  /\ UNCHANGED <<now, session, load, pendingApprovals, flow, authVars, msg, cpc, helper,
                 pendingRequests, job, resp, posted>>

ClearDomains ==
  /\ \E o \in Origins : domains[o] # NoEntry \/ storage[o] # NoEntry
  /\ domains' = clear(domains)
  /\ storage' = domains'
  /\ UNCHANGED <<now, session, load, pendingApprovals, flow, authVars, msg, cpc, helper,
                 pendingRequests, job, resp, posted>>

\* chrome.runtime.sendMessage(extensionId, ...) of an external sender:
\* onMessageExternal
ExternalMessage(i, origin, kind) ==
  LET data == IF kind = "extFetch"
              THEN RawData({"deedNumbers", "ownerIdType", "ownerId"}, "", <<"1">>,
                           "", 1, "1234567890")
              ELSE NoData
  IN
  /\ Fresh(i)
  /\ msg' = [msg EXCEPT ![i] = [kind |-> kind, origin |-> origin, data |-> data]]
  /\ cpc' = [cpc EXCEPT ![i] = "external"]
  /\ IF kind = "extFetch"
     THEN handleDeedRequest(i, data) /\ UNCHANGED <<authVars, resp>>
     ELSE (\E q \in BOOLEAN : OnGetAuthStatus(i, q)) /\ UNCHANGED job
  /\ UNCHANGED <<now, session, mediatorVars, helper, pendingRequests, posted>>

\* a "fetchDeeds" message of any sender (an extension page, an external
\* sender) with its own data: onMessage / onMessageExternal
FetchDeedsMessage(i, origin, data) ==
  /\ Fresh(i)
  /\ msg' = [msg EXCEPT ![i] = [kind |-> "extFetch", origin |-> origin, data |-> data]]
  /\ cpc' = [cpc EXCEPT ![i] = "external"]
  /\ handleDeedRequest(i, data)
  /\ UNCHANGED <<now, session, mediatorVars, authVars, helper, pendingRequests,
                 resp, posted>>

\* sendResponse of an external message reaches its sender
ExternalResponse(i) ==
  /\ cpc[i] = "external"
  /\ \/ /\ msg[i].kind = "extAuth" /\ resp[i] # NoStatus
        /\ Post(i, [PageMsg EXCEPT
                      !.type = "getAuthStatus:response",
                      !.authenticated = resp[i].authenticated,
                      !.status = resp[i].status,
                      !.message = resp[i].message,
                      !.token = resp[i].token], msg[i].origin)
     \/ /\ msg[i].kind = "extFetch" /\ job[i].st = "done"
        /\ Post(i, [PageMsg EXCEPT
                      !.type = "fetchDeeds:response",
                      !.success = job[i].response.success,
                      !.error = job[i].response.error,
                      !.authStatus = job[i].response.authStatus], msg[i].origin)
  /\ cpc' = [cpc EXCEPT ![i] = "done"]
  /\ UNCHANGED <<now, session, mediatorVars, authVars, msg, helper,
                 pendingRequests, job, resp>>

\* =================================================== the content script
\* RequestBuilder.buildInternalMessage: the "fetchDeeds" message
buildInternalMessage(validatedRequest) ==
  LET params == validatedRequest.data IN
  WithDate(RawData({"deedNumbers", "searchMode", "ownerIdType", "ownerId"}, "",
                   params.deedNumbers, params.searchMode,
                   params.ownerIdType, params.ownerId),
           DateFields, params.deedDateYear, params.deedDateMonth, params.deedDateDay,
           params.isHijriDate)

\* errors.join(', ')
RECURSIVE join(_)
join(errors) ==
  IF errors = <<>> THEN ""
  ELSE IF Len(errors) = 1 THEN errors[1]
  ELSE errors[1] \o ", " \o join(Tail(errors))

TimeoutMessage == "Extension error: Request timeout after 10000ms"

\* "SREM_EXTENSION_DISCOVERY"
Discovery(i, origin) ==
  /\ Fresh(i)
  /\ msg' = [msg EXCEPT ![i] = [kind |-> "discovery", origin |-> origin, data |-> NoData]]
  /\ Post(i, [PageMsg EXCEPT !.type = "SREM_EXTENSION_EXISTS"], origin)
  /\ cpc' = [cpc EXCEPT ![i] = "done"]
  /\ UNCHANGED <<now, session, mediatorVars, authVars, helper, pendingRequests, job, resp>>

\* "SREM_REQUEST_APPROVAL": sends "requestDomainApproval"
RequestApprovalMessage(i, origin) ==
  /\ Fresh(i)
  /\ msg' = [msg EXCEPT ![i] = [kind |-> "approval", origin |-> origin, data |-> NoData]]
  /\ cpc' = [cpc EXCEPT ![i] = "approval"]
  /\ requestApproval(i, origin)
  /\ UNCHANGED <<now, session, authVars, helper, pendingRequests, job, resp, posted>>

\* ... its response callback
ApprovalCallback(i) ==
  LET result == flow[i].result IN
  /\ cpc[i] = "approval"
  /\ result # Unresolved
  /\ Post(i, [PageMsg EXCEPT
                !.type = "SREM_APPROVAL_RESPONSE",
                !.approved = result.approved,
                !.expiresAt = result.expiresAt,
                !.reason = IF result.reason # "" THEN result.reason
                           ELSE IF result.approved THEN "approved" ELSE "denied"],
          msg[i].origin)
  /\ cpc' = [cpc EXCEPT ![i] = "done"]
  /\ UNCHANGED <<now, session, mediatorVars, authVars, msg, helper, pendingRequests,
                 job, resp>>

\* "SREM_EXTENSION_PING": sends "checkDomainApproval"
Ping(i, origin) ==
  /\ Fresh(i)
  /\ msg' = [msg EXCEPT ![i] = [kind |-> "ping", origin |-> origin, data |-> NoData]]
  /\ cpc' = [cpc EXCEPT ![i] = "ping"]
  /\ requestApproval(i, origin)
  /\ UNCHANGED <<now, session, authVars, helper, pendingRequests, job, resp, posted>>

\* ... its response callback: (approved) => { if (approved) ... }
PingCallback(i) ==
  LET approved == flow[i].result IN
  /\ cpc[i] = "ping"
  /\ approved # Unresolved
  /\ IF Truthy(approved)
     THEN Post(i, [PageMsg EXCEPT !.type = "SREM_EXTENSION_PONG"], msg[i].origin)
     ELSE UNCHANGED posted
  /\ cpc' = [cpc EXCEPT ![i] = "done"]
  /\ UNCHANGED <<now, session, mediatorVars, authVars, msg, helper, pendingRequests,
                 job, resp>>

\* "SREM_AUTH_STATUS_REQUEST": sends "checkDomainApproval"
AuthStatusRequest(i, origin, data) ==
  /\ Fresh(i)
  /\ msg' = [msg EXCEPT ![i] = [kind |-> "auth", origin |-> origin, data |-> data]]
  /\ cpc' = [cpc EXCEPT ![i] = "authcheck"]
  /\ requestApproval(i, origin)
  /\ UNCHANGED <<now, session, authVars, helper, pendingRequests, job, resp, posted>>

\* ... its response callback: if (approved) handleAuthStatusRequest(event),
\* which sends "getAuthStatus" through sendMessageSafely
AuthCheckCallback(i) ==
  LET approved == flow[i].result IN
  /\ cpc[i] = "authcheck"
  /\ approved # Unresolved
  /\ IF Truthy(approved)
     THEN /\ helper' = [helper EXCEPT ![i] = sendMessageSafely]
          /\ cpc' = [cpc EXCEPT ![i] = "status"]
          /\ \E queried \in BOOLEAN : OnGetAuthStatus(i, queried)
     ELSE /\ cpc' = [cpc EXCEPT ![i] = "done"]
          /\ UNCHANGED <<helper, resp, authVars>>
  /\ UNCHANGED <<now, session, mediatorVars, msg, pendingRequests, job, posted>>

\* handleAuthStatusRequest: the mediator's response reaches sendMessageSafely,
\* which runs the callback with it unless the timer did
AuthStatusCallback(i) ==
  LET authResponse == fromChromeResponse(msg[i].data.requestId, resp[i], Wildcard) IN
  /\ cpc[i] = "status"
  /\ ~helper[i].delivered
  /\ resp[i] # NoStatus
  /\ helper' = [helper EXCEPT ![i] = ResponseDelivered(@)]
  /\ IF HelperAccepts(helper[i])
     THEN Post(i, authResponse, authResponse.target)
     ELSE UNCHANGED posted
  /\ cpc' = [cpc EXCEPT ![i] = "done"]
  /\ UNCHANGED <<now, session, mediatorVars, authVars, msg, pendingRequests, job, resp>>

\* handleBridgeRequest ("SREM_BRIDGE_REQUEST") up to the first message sent
handleBridgeRequest(i, origin, data) ==
  LET validationResult == validateAndBuildRequest(data)
      requestId == validationResult.data.requestId
      rawRequestId == safeString(data, "requestId", data.requestId, Undefined)
  IN
  /\ Fresh(i)
  /\ msg' = [msg EXCEPT ![i] = [kind |-> "lookup", origin |-> origin, data |-> data]]
  /\ IF ~validationResult.success
     THEN /\ Post(i, formatBridgeError(
                       IF rawRequestId \in {Undefined, ""} THEN "unknown"
                       ELSE rawRequestId,
                       "Invalid request parameters: " \o join(validationResult.errors),
                       "validation_error"),
                  origin)
          /\ cpc' = [cpc EXCEPT ![i] = "done"]
          /\ UNCHANGED <<mediatorVars, helper, pendingRequests>>
     ELSE /\ pendingRequests' = [pendingRequests EXCEPT ![requestId] =
                                   [origin |-> origin, timestamp |-> now]]
          /\ helper' = [helper EXCEPT ![i] = sendMessageSafely]
          /\ cpc' = [cpc EXCEPT ![i] = "bcheck"]
          /\ requestApproval(i, origin)
          /\ UNCHANGED posted
  /\ UNCHANGED <<now, session, authVars, job, resp>>

\* the requestId the callbacks of handleBridgeRequest close over
RequestId(i) == validateAndBuildRequest(msg[i].data).data.requestId

\* handleBridgeRequest: the mediator's response to "checkDomainApproval"
\* reaches sendMessageSafely, which runs the callback with it unless the
\* timer did
BridgeCheckCallback(i) ==
  LET approved == flow[i].result
      requestId == RequestId(i)
  IN
  /\ cpc[i] = "bcheck"
  /\ ~helper[i].delivered
  /\ approved # Unresolved
  /\ IF ~HelperAccepts(helper[i])
     THEN /\ helper' = [helper EXCEPT ![i] = ResponseDelivered(@)]
          /\ cpc' = [cpc EXCEPT ![i] = "done"]
          /\ UNCHANGED <<posted, pendingRequests, job>>
     ELSE IF ~Truthy(approved)
     THEN /\ Post(i, formatBridgeError(requestId,
                       "Domain not approved. Please approve this domain to use SREM bridge.",
                       "domain_not_approved"),
                  RouteTarget(requestId))
          /\ pendingRequests' = [pendingRequests EXCEPT ![requestId] = NoRoute]
          /\ helper' = [helper EXCEPT ![i] = ResponseDelivered(@)]
          /\ cpc' = [cpc EXCEPT ![i] = "done"]
          /\ UNCHANGED job
     ELSE /\ helper' = [helper EXCEPT ![i] = sendMessageSafely]
          /\ cpc' = [cpc EXCEPT ![i] = "fetch"]
          /\ handleDeedRequest(i, buildInternalMessage(validateAndBuildRequest(msg[i].data)))
          /\ UNCHANGED <<posted, pendingRequests>>
  /\ UNCHANGED <<now, session, mediatorVars, authVars, msg, resp>>

\* handleBridgeRequest: the mediator's response to "fetchDeeds" reaches
\* sendMessageSafely, which runs the callback with it unless the timer did
BridgeFetchCallback(i) ==
  LET response == job[i].response
      requestId == RequestId(i)
  IN
  /\ cpc[i] = "fetch"
  /\ ~helper[i].delivered
  /\ job[i].st = "done"
  /\ helper' = [helper EXCEPT ![i] = ResponseDelivered(@)]
  /\ IF HelperAccepts(helper[i])
     THEN /\ Post(i, formatBridgeResponse(requestId, response.results,
                                          IF response.authStatus = Undefined THEN "unknown"
                                          ELSE response.authStatus),
                  RouteTarget(requestId))
          /\ pendingRequests' = [pendingRequests EXCEPT ![requestId] = NoRoute]
     ELSE UNCHANGED <<posted, pendingRequests>>
  /\ cpc' = [cpc EXCEPT ![i] = "done"]
  /\ UNCHANGED <<now, session, mediatorVars, authVars, msg, job, resp>>

\* sendMessageSafely: the 10-second timer fires; the caller's callback runs
\* with a TIMEOUT_ERROR unless the response callback ran before
HelperTimeout(i) ==
  LET requestId == RequestId(i)
      authResponse == buildAuthError(msg[i].data.requestId, TimeoutMessage, Wildcard)
  IN
  /\ helper[i].timer
  /\ helper' = [helper EXCEPT ![i] = TimerFired(@)]
  /\ IF ~HelperTimerFires(helper[i])
     THEN UNCHANGED <<posted, pendingRequests>>
     ELSE IF cpc[i] = "status"
     THEN /\ Post(i, authResponse, authResponse.target)
          /\ UNCHANGED pendingRequests
     ELSE /\ Post(i, formatBridgeError(requestId, TimeoutMessage, "extension_error"),
                  RouteTarget(requestId))
          /\ pendingRequests' = [pendingRequests EXCEPT ![requestId] = NoRoute]
  /\ UNCHANGED <<now, session, mediatorVars, authVars, msg, cpc, job, resp>>

\* a sweep that drops nothing
sweepNothing(routes, t) == routes

\* the setInterval callback: entries older than maxAge are deleted
sweep(routes, t) ==
  [requestId \in DOMAIN routes |->
     IF routes[requestId] # NoRoute /\ t - routes[requestId].timestamp > MaxAgeTicks
     THEN NoRoute
     ELSE routes[requestId]]

\* the clock of the content script runs until an entry made in the first
\* tick after a sweep has been dropped
SweepMaxNow == MaxAgeTicks + 2 * SweepTicks

\* time passes in the page, up to the next run of the sweep
PageTick ==
  /\ now < SweepMaxNow
  /\ (now + 1) % SweepTicks # 0
  /\ now' = now + 1
  /\ UNCHANGED <<session, mediatorVars, authVars, msg, cpc, helper, pendingRequests,
                 job, resp, posted>>

\* the interval of the sweep elapses: its callback runs
Sweep ==
  /\ now < SweepMaxNow
  /\ (now + 1) % SweepTicks = 0
  /\ now' = now + 1
  /\ pendingRequests' = sweep(pendingRequests, now')
  /\ UNCHANGED <<session, mediatorVars, authVars, msg, cpc, helper, job, resp, posted>>

\* ====================================================== the environment
\* the user logs in to / out of SREM in a tab
Login ==
  /\ session = NoToken
  /\ session' = AccessToken
  /\ UNCHANGED <<now, mediatorVars, authVars, msg, cpc, helper, pendingRequests,
                 job, resp, posted>>

Logout ==
  /\ session # NoToken
  /\ session' = NoToken
  /\ UNCHANGED <<now, mediatorVars, authVars, msg, cpc, helper, pendingRequests,
                 job, resp, posted>>

\* The origins are interchangeable: the first message of a behaviour is
\* taken to come from the first of them.
OriginsOf(i) == IF i = 1 THEN {"https://a.example"} ELSE Origins

\* the steps of the approval flow made for request i
FlowSteps(i) ==
  \/ \E created \in BOOLEAN : PopupCreated(i, created)
  \/ ApprovalTimeout(i)
  \/ WindowRemoved(i)
  \/ \E approved \in BOOLEAN : handleDomainApprovalResponse(i, approved)

\* ------------------------------------------------------------------------
\* time passes
Tick ==
  /\ now < MaxNow
  /\ now' = now + 1
  /\ UNCHANGED <<session, mediatorVars, authVars, msg, cpc, helper, pendingRequests,
                 job, resp, posted>>

\* onMessage, "getDomainList" (popup): whitelist.list(), whose cleanup() saves
GetDomainList ==
  /\ domains' = cleanup(domains, now)
  /\ storage' = domains'
  /\ UNCHANGED <<now, session, load, pendingApprovals, flow, authVars, msg, cpc, helper,
                 pendingRequests, job, resp, posted>>

\* whitelist.approve(origin, days) called on the store directly
ApproveCall(origin, days) ==
  /\ domains' = approve(domains, origin, days, now)
  /\ storage' = domains'
  /\ UNCHANGED <<now, session, load, pendingApprovals, flow, authVars, msg, cpc, helper,
                 pendingRequests, job, resp, posted>>

\* whitelist.isApproved(origin) called on the store directly; it saves when
\* it found an entry
IsApprovedCall(origin) ==
  /\ domains[origin] # NoEntry => domains[origin].uses < MaxUses
  /\ domains' = isApprovedEffect(domains, origin, now)
  /\ storage' = IF domains[origin] = NoEntry THEN storage ELSE domains'
  /\ UNCHANGED <<now, session, load, pendingApprovals, flow, authVars, msg, cpc, helper,
                 pendingRequests, job, resp, posted>>

\* ------------------------------------------------------------------------
\* Trust store: the DomainWhitelist object driven through its methods while
\* the clock runs.
TrustNext ==
  \/ Tick
  \/ \E origin \in Origins :
       \/ \E days \in Durations : ApproveCall(origin, days)
       \/ IsApprovedCall(origin)
       \/ RemoveDomain(origin)
  \/ ClearDomains
  \/ GetDomainList

TrustSpec == Init /\ [][TrustNext]_vars

\* ------------------------------------------------------------------------
\* Restart: the DomainWhitelist object driven through its methods while the
\* clock runs and the service worker is stopped and started again.
RestartNext ==
  \/ Tick
  \/ \E origin \in Origins :
       \/ \E days \in Durations : ApproveCall(origin, days)
       \/ RemoveDomain(origin)
  \/ ClearDomains
  \/ Restart
  \/ init

RestartSpec == Init /\ [][RestartNext]_vars

\* ------------------------------------------------------------------------
\* Worker: consent requests and pings, the approval flows and the popup's
\* whitelist management while the service worker is stopped and started
\* again.
WorkerNext ==
  \/ \E i \in Reqs : \E origin \in OriginsOf(i) :
       \/ RequestApprovalMessage(i, origin)
       \/ Ping(i, origin)
  \/ \E i \in Reqs :
       \/ ApprovalCallback(i)
       \/ PingCallback(i)
       \/ FlowSteps(i)
  \/ \E origin \in Origins : RemoveDomain(origin)
  \/ ClearDomains
  \/ Restart
  \/ init

WorkerSpec == Init /\ [][WorkerNext]_vars

\* ------------------------------------------------------------------------
\* Approval: consent requests and pings, the approval flows, the popup's
\* whitelist management.
ApprovalNext ==
  \/ \E i \in Reqs : \E origin \in OriginsOf(i) :
       \/ RequestApprovalMessage(i, origin)
       \/ Ping(i, origin)
  \/ \E i \in Reqs :
       \/ ApprovalCallback(i)
       \/ PingCallback(i)
       \/ FlowSteps(i)
  \/ \E origin \in Origins : RemoveDomain(origin)
  \/ ClearDomains

ApprovalSpec == Init /\ [][ApprovalNext]_vars

\* ------------------------------------------------------------------------
\* Consent: the approval flows while the clock runs.
ConsentNext ==
  \/ ApprovalNext
  \/ Tick

ConsentSpec == Init /\ [][ConsentNext]_vars

\* ------------------------------------------------------------------------
\* Validation: lookup requests of every shape, up to the reply to an invalid
\* one and the approval check of a valid one.
ValidationNext ==
  \E i \in Reqs : \E origin \in OriginsOf(i) :
    \E data \in ValidationInputs : handleBridgeRequest(i, origin, data)

ValidationSpec == Init /\ [][ValidationNext]_vars

\* ------------------------------------------------------------------------
\* Parse: "fetchDeeds" messages with deedNumbers strings of every shape, up
\* to the first remote call.
ParseNext ==
  \/ \E i \in Reqs : \E origin \in OriginsOf(i) :
       \E deedNumbers \in Strings(MaxLen) \cup {ExampleString} :
         FetchDeedsMessage(i, origin,
                           RawData({"deedNumbers", "ownerIdType", "ownerId"}, "",
                                   deedNumbers, "", 1, "1234567890"))
  \/ Login

ParseSpec == Init /\ [][ParseNext]_vars

\* ------------------------------------------------------------------------
\* Payload: the "fetchDeeds" messages the content script builds from the
\* requests that pass the validation, and the remote calls made for them.
PayloadInputs ==
  { buildInternalMessage(validateAndBuildRequest(raw)) :
      raw \in {r \in ValidationInputs \cup LookupInputs :
                 validateAndBuildRequest(r).success} }

PayloadNext ==
  \/ \E i \in Reqs : \E origin \in OriginsOf(i) :
       \E data \in PayloadInputs : FetchDeedsMessage(i, origin, data)
  \/ \E i \in Reqs : \E outcome \in FetchOutcomes : FetchCompletes(i, outcome)
  \/ Login

PayloadSpec == Init /\ [][PayloadNext]_vars

\* ------------------------------------------------------------------------
\* Fetch: "fetchDeeds" messages for one and for two deed numbers, every
\* remote call ending in every way it can.
FetchNext ==
  \/ \E i \in Reqs : \E origin \in OriginsOf(i) :
       \E deedNumbers \in {<<"1", ",", "2">>, <<"2">>} :
         FetchDeedsMessage(i, origin,
                           RawData({"deedNumbers", "ownerIdType", "ownerId"}, "",
                                   deedNumbers, "", 1, "1234567890"))
  \/ \E i \in Reqs : \E outcome \in AllFetchOutcomes : FetchCompletes(i, outcome)
  \/ Login

FetchSpec == Init /\ [][FetchNext]_vars

\* ------------------------------------------------------------------------
\* Format: lookups of a page the user approves and searches of the popup,
\* for one and for three deed numbers, up to the bridge reply and the
\* downloaded file.
FormatNext ==
  \/ \E i \in Reqs : \E origin \in OriginsOf(i) :
       \E data \in { RawData(OwnerFields, "r1", <<"1", ",", "2", ",", "3">>, "owner", 1,
                              "1234567890"),
                      RawData(OwnerFields, "r2", <<"1">>, "owner", 1, "1234567890") } :
         handleBridgeRequest(i, origin, data)
  \/ \E i \in Reqs : \E deedNumbers \in {<<"1", ",", "2", ",", "3">>, <<"1">>} :
       FetchDeedsMessage(i, ExtensionOrigin,
                         RawData({"deedNumbers", "searchMode", "ownerIdType", "ownerId"},
                                 "", deedNumbers, "owner", 1, "1234567890"))
  \/ \E i \in Reqs :
       \/ PopupCreated(i, TRUE)
       \/ handleDomainApprovalResponse(i, TRUE)
       \/ BridgeCheckCallback(i)
       \/ BridgeFetchCallback(i)
       \/ \E outcome \in {"ok", "provider_error", "http_401", "network_error"} :
            FetchCompletes(i, outcome)
       \/ ExternalResponse(i)
       \/ downloadAll(i)
  \/ Login

FormatSpec == Init /\ [][FormatNext]_vars

\* ------------------------------------------------------------------------
\* Route: lookup requests of one page while time passes and nobody is
\* logged in to SREM: the entries of pendingRequests, the replies and the
\* sweep.
RouteNext ==
  \/ \E i \in Reqs : \E requestId \in RequestIds :
       handleBridgeRequest(i, "https://a.example",
                           RawData(OwnerFields, requestId, <<"1">>, "owner", 1,
                                   "1234567890"))
  \/ \E i \in Reqs :
       \/ PopupCreated(i, TRUE)
       \/ \E approved \in BOOLEAN : handleDomainApprovalResponse(i, approved)
       \/ BridgeCheckCallback(i)
       \/ BridgeFetchCallback(i)
       \/ HelperTimeout(i)
  \/ PageTick
  \/ Sweep

RouteSpec == Init /\ [][RouteNext]_vars

\* ------------------------------------------------------------------------
\* Limit: a lookup of a page the user approves, for one deed number more
\* than the documented maximum, and a second lookup for one deed number.
RECURSIVE ManyDeeds(_)
ManyDeeds(n) == IF n = 1 THEN <<"1">> ELSE ManyDeeds(n - 1) \o <<",", "1">>

LimitInputs ==
  { RawData(OwnerFields, "r1", ManyDeeds(MaxDeeds + 1), "owner", 1, "1234567890"),
    RawData(OwnerFields, "r2", <<"1">>, "owner", 1, "1234567890") }

LimitNext ==
  \/ \E i \in Reqs : \E data \in LimitInputs :
       handleBridgeRequest(i, "https://a.example", data)
  \/ \E i \in Reqs :
       \/ PopupCreated(i, TRUE)
       \/ handleDomainApprovalResponse(i, TRUE)
       \/ BridgeCheckCallback(i)
       \/ BridgeFetchCallback(i)
       \/ FetchCompletes(i, "ok")
  \/ Login

LimitSpec == Init /\ [][LimitNext]_vars

\* ------------------------------------------------------------------------
\* Bridge: lookup requests, their approval flows and their remote calls. The
\* user may log in to SREM at any moment; a lookup reads the session once,
\* when handleDeedRequest starts. A consent window is answered or left to
\* its timer; windows closed by the user are explored in Approval and
\* Consent.
BridgeNext ==
  \/ \E i \in Reqs : \E origin \in OriginsOf(i) :
       \E data \in LookupInputs : handleBridgeRequest(i, origin, data)
  \/ \E i \in Reqs :
       \/ BridgeCheckCallback(i)
       \/ BridgeFetchCallback(i)
       \/ HelperTimeout(i)
       \/ \E created \in BOOLEAN : PopupCreated(i, created)
       \/ ApprovalTimeout(i)
       \/ \E approved \in BOOLEAN : handleDomainApprovalResponse(i, approved)
       \/ \E outcome \in FetchOutcomes : FetchCompletes(i, outcome)
  \/ Login

BridgeSpec == Init /\ [][BridgeNext]_vars

\* ------------------------------------------------------------------------
\* Auth: discovery, auth-status requests, external runtime messages, the
\* periodic credential check.
AuthNext ==
  \/ \E i \in Reqs : \E origin \in OriginsOf(i) :
       \/ Discovery(i, origin)
       \/ \E data \in AuthInputs : AuthStatusRequest(i, origin, data)
       \/ \E kind \in {"extFetch", "extAuth"} : ExternalMessage(i, origin, kind)
  \/ \E i \in Reqs :
       \/ AuthCheckCallback(i)
       \/ AuthStatusCallback(i)
       \/ HelperTimeout(i)
       \/ FlowSteps(i)
       \/ \E outcome \in FetchOutcomes : FetchCompletes(i, outcome)
       \/ ExternalResponse(i)
  \/ \E queried \in BOOLEAN : PeriodicCheck(queried)
  \/ Login
  \/ Logout

AuthSpec == Init /\ [][AuthNext]_vars

\* ------------------------------------------------------------------------
\* Everything together.
Next ==
  \/ \E i \in Reqs : \E origin \in OriginsOf(i) :
       \/ Discovery(i, origin)
       \/ RequestApprovalMessage(i, origin)
       \/ Ping(i, origin)
       \/ \E data \in AuthInputs : AuthStatusRequest(i, origin, data)
       \/ \E data \in LookupInputs : handleBridgeRequest(i, origin, data)
       \/ \E kind \in {"extFetch", "extAuth"} : ExternalMessage(i, origin, kind)
  \/ \E i \in Reqs :
       \/ ApprovalCallback(i)
       \/ PingCallback(i)
       \/ AuthCheckCallback(i)
       \/ AuthStatusCallback(i)
       \/ BridgeCheckCallback(i)
       \/ BridgeFetchCallback(i)
       \/ HelperTimeout(i)
       \/ FlowSteps(i)
       \/ \E outcome \in FetchOutcomes : FetchCompletes(i, outcome)
       \/ ExternalResponse(i)
  \/ \E queried \in BOOLEAN : PeriodicCheck(queried)
  \/ \E origin \in Origins : RemoveDomain(origin)
  \/ ClearDomains
  \/ Login
  \/ Logout

Spec == Init /\ [][Next]_vars

\* ================================================================ claims
LookupReqs == {i \in Reqs : msg[i].kind = "lookup"}

\* handleDeedRequest has issued a remote call for request i
CallIssued(i) == job[i].st = "running" \/ Len(job[i].results) > 0

\* the messages posted for request i
Replies(i) == Range(posted[i])

\* C1: a remote lookup call is issued on behalf of a lookup request only if
\* the approval check made for it came out approved (the origin was already
\* approved, or the user approved it in the consent prompt).
C1_NoCallWithoutApproval ==
  \A i \in LookupReqs : CallIssued(i) => flow[i].result.approved

\* C2: a pong or an auth-status reply is posted for a request only if the
\* approval check made for it came out approved.
C2_SilentUnlessApproved ==
  \A i \in Reqs : \A m \in Replies(i) :
     m.type \in {"SREM_EXTENSION_PONG", "SREM_AUTH_STATUS_RESPONSE"}
       => flow[i].result.approved

\* C3: a valid lookup request whose approval check ended without approval
\* (denied, dismissed, timed out, popup not shown) is answered with
\* success = false, an empty result and authStatus "domain_not_approved".
C3_DeniedLookupReply ==
  \A i \in LookupReqs :
     ( /\ validateAndBuildRequest(msg[i].data).success
       /\ flow[i].result # Unresolved
       /\ ~flow[i].result.approved )
     => \A m \in Replies(i) :
          /\ m.success = FALSE
          /\ m.result = <<>>
          /\ m.authStatus = "domain_not_approved"

\* C4: no message posted to a page, returned to an external sender or
\* broadcast carries the bearer token.
C4_NoTokenLeaves ==
  /\ \A i \in Reqs : \A m \in Replies(i) : m.token = NoToken
  /\ broadcast.token = NoToken

\* C5: every lookup-reply and every auth-status reply is posted with the
\* origin of the requesting message event as its target, never with "*".
C5_TargetIsRequester ==
  \A i \in Reqs : \A m \in Replies(i) :
     m.type \in {"SREM_BRIDGE_RESPONSE", "SREM_AUTH_STATUS_RESPONSE"}
       => m.target = msg[i].origin

\* event.data.requestId of request i
EventRequestId(i) == safeString(msg[i].data, "requestId", msg[i].data.requestId, Undefined)

\* the requestId a lookup-reply for request i is to carry
ReplyId(i) ==
  IF EventRequestId(i) \in {Undefined, ""} THEN "unknown" ELSE EventRequestId(i)

C7_ReplyAfterFetches ==
  \A i \in LookupReqs : Len(posted[i]) > 0 => ~job[i].inflight

\* C8: an approval-request that has no approval-reply yet has one on its
\* way without the user doing anything: its flow is resolved (the reply is
\* being delivered), or the popup is being created, or the 30-second timer
\* of its flow is armed.
C8_ApprovalReplyOnItsWay ==
  \A i \in Reqs :
     (msg[i].kind = "approval" /\ Len(posted[i]) = 0)
       => \/ flow[i].result # Unresolved
          \/ flow[i].st = "creating"
          \/ flow[i].timer = "armed"

\* C9: an approval flow is resolved by one of its triggers and the first
\* resolution stands: a resolved flow keeps its outcome, and a flow whose
\* window opened is resolved by the time its 30-second timer has fired or
\* has been cleared by a decision or a window close.
C9_ResolvedOnceByATrigger ==
  [][\A i \in Reqs :
       /\ flow[i].result # Unresolved => flow'[i].result = flow[i].result
       /\ (flow'[i].st = "open" /\ flow'[i].timer # "armed")
            => flow'[i].result # Unresolved]_vars

\* C10: the pendingApprovals entry of an origin is never replaced while the
\* flow it stores is unresolved.
C10_EntryNeverReplaced ==
  [][\A o \in Origins :
       (pendingApprovals[o] # 0 /\ flow[pendingApprovals[o]].result = Unresolved)
         => \/ pendingApprovals'[o] = pendingApprovals[o]
            \/ flow'[pendingApprovals[o]].result # Unresolved]_vars

\* the end of the period of an entry: approvedAt + D days
PeriodEnd(e) == e.approved + e.days * DayTicks

\* C11: after approve(O, D) and as long as no remove or clear intervenes, a
\* check of O made before approvedAt + D answers true and a check made after
\* it answers false: the entry stays, with its approvedAt and D, until it is
\* removed, cleared, replaced by a new approve or its period is over.
C11_ApprovedUntilExpiry ==
  [][\A o \in Origins :
       /\ (domains'[o] # NoEntry /\ now' < PeriodEnd(domains'[o]))
            => isApproved(domains', o, now')
       /\ (domains'[o] # NoEntry /\ now' > PeriodEnd(domains'[o]))
            => ~isApproved(domains', o, now')
       /\ domains'[o] = NoEntry => ~isApproved(domains', o, now')
       /\ (domains[o] # NoEntry /\ domains'[o] = NoEntry)
            => \/ domains' = remove(domains, o)
               \/ domains' = clear(domains)
               \/ now > PeriodEnd(domains[o])
       /\ (domains[o] # NoEntry /\ domains'[o] # NoEntry)
            => \/ /\ domains'[o].approved = domains[o].approved
                  /\ domains'[o].days = domains[o].days
               \/ domains'[o].approved = now]_vars

\* C11, its case: an entry that a check made after the tick of its approval,
\* before the end of its period, found approved
C11_CheckedLater ==
  \E o \in Origins :
     /\ domains[o] # NoEntry
     /\ domains[o].uses > 0
     /\ domains[o].lastUsed > domains[o].approved
     /\ domains[o].lastUsed < PeriodEnd(domains[o])

\* C12 (as stated): a check answers true exactly when the origin has an
\* entry and now < expiresAt; at now = expiresAt it answers false.
C12_ApprovedIffBeforeExpiry ==
  \A o \in Origins :
     isApproved(domains, o, now) <=> (domains[o] # NoEntry /\ now < domains[o].expires)

\* C13 (as stated): list() reports no entry with expiresAt <= now, and every
\* entry it reports has daysLeft >= 1.
C13_ListedEntriesAreLive ==
  \A row \in list(domains, now) : row.expires > now /\ row.daysLeft >= 1

\* C14: every entry has expiresAt = approvedAt + durationDays, and an entry
\* made by the approval flow has durationDays = 60 whatever days the
\* decision message carries.
C14_SixtyDayPeriod ==
  \A o \in Origins :
     domains[o] # NoEntry
       => /\ domains[o].expires = domains[o].approved + domains[o].days * DayTicks
          /\ domains[o].days = DurationDays

\* C14, its case: an entry made by a user's approval after the clock has
\* advanced
C14_ApprovedLater ==
  \E o \in Origins : domains[o] # NoEntry /\ domains[o].approved > 0

\* flow i is awaiting the user's decision: its consent window is open, no
\* decision was sent from it and its promise is unresolved
AwaitingDecision(i) ==
  /\ flow[i].st = "open"
  /\ flow[i].win = "open"
  /\ flow[i].dec = "none"
  /\ flow[i].result = Unresolved

\* C15 (as stated): when the user approves in the consent prompt of a flow
\* awaiting the decision, the entry is written and the flow is resolved in
\* that step: the origin is approved, and the result is approved = true,
\* reason user_approved, expiresAt the expiry of the stored entry.
C15_ApprovalResolvesItsFlow ==
  [][\A i \in Reqs :
       (AwaitingDecision(i) /\ handleDomainApprovalResponse(i, TRUE))
         => /\ isApproved(domains', msg[i].origin, now')
            /\ flow'[i].result =
                 ApprovalResult(TRUE, "user_approved",
                                toISOString(domains'[msg[i].origin].expires))]_vars

\* C16 (as stated): when the user denies in the consent prompt of a flow
\* awaiting the decision for an unapproved origin, the flow is resolved with
\* approved = false, reason user_denied, no entry is made and a check of
\* the origin made afterwards answers false.
C16_DenialResolvesItsFlow ==
  [][\A i \in Reqs :
       ( /\ AwaitingDecision(i)
         /\ ~isApproved(domains, msg[i].origin, now)
         /\ handleDomainApprovalResponse(i, FALSE) )
         => /\ flow'[i].result = ApprovalResult(FALSE, "user_denied", -1)
            /\ domains' = domains
            /\ ~isApproved(domains', msg[i].origin, now')]_vars

\* C17: requestApproval for an origin with an unexpired entry resolves at
\* once with approved = true, reason already_approved and the expiry of the
\* entry; no consent window is opened and no pendingApprovals entry made for
\* it, then or later, and approvedAt and expiresAt of the entry stay.
C17_AlreadyApproved ==
  [][\A i \in Reqs :
       LET o == msg'[i].origin IN
       /\ (flow[i].st = "none" /\ flow'[i].st # "none" /\ isApproved(domains, o, now))
            => /\ flow'[i].st = "short"
               /\ flow'[i].result =
                    ApprovalResult(TRUE, "already_approved",
                                   toISOString(domains[o].expires))
               /\ pendingApprovals' = pendingApprovals
               /\ domains'[o].approved = domains[o].approved
               /\ domains'[o].expires = domains[o].expires
       /\ flow'[i].st = "short"
            => /\ flow'[i].win = "none"
               /\ flow'[i].timer = "none"
               /\ pendingApprovals'[o] # i]_vars

\* C17, its case: a request that found its origin approved, at a tick after
\* the approval
C17_ShortCircuited ==
  \E i \in Reqs :
     /\ flow[i].st = "short"
     /\ domains[msg[i].origin] # NoEntry
     /\ domains[msg[i].origin].lastUsed > domains[msg[i].origin].approved

\* C18 (as stated): a flow awaiting the decision that gets none is resolved
\* with approved = false: by its 30-second timer with reason timeout, by the
\* close of its window, when that comes first, with reason popup_closed; in
\* both cases its pendingApprovals entry is gone and no trust entry is made.
C18_TimeoutOrClose ==
  [][\A i \in Reqs :
       AwaitingDecision(i)
         => /\ ApprovalTimeout(i)
                 => /\ flow'[i].result = ApprovalResult(FALSE, "timeout", -1)
                    /\ pendingApprovals'[msg[i].origin] = 0
                    /\ domains' = domains
            /\ WindowRemoved(i)
                 => /\ flow'[i].result = ApprovalResult(FALSE, "popup_closed", -1)
                    /\ pendingApprovals'[msg[i].origin] = 0
                    /\ domains' = domains]_vars

\* C19 (as stated): validateAndBuildRequest returns success, the normalized
\* request and no errors when the input violates no rule, and otherwise
\* failure, null data and one error for every rule violated; never success
\* with errors, never failure without. The rules: request id and identifier
\* list non-empty (the list after it is split and trimmed), a known search
\* mode, and the fields of the mode.
C19_AllOrNothing ==
  \A i \in LookupReqs :
     LET validationResult == validateAndBuildRequest(msg[i].data)
         params == extractAllParameters(msg[i].data)
         violated ==
           (IF isBlank(params.requestId) THEN {"requestId"} ELSE {})
           \cup (IF parseDeedNumbers(params.deedNumbers) = <<>>
                 THEN {"deedNumbers"} ELSE {})
           \cup (IF params.searchMode \notin {"owner", "date"}
                 THEN {"searchMode"} ELSE {})
           \cup (IF params.searchMode = "owner" /\ isBlank(params.ownerId)
                 THEN {"ownerId"} ELSE {})
           \cup (IF params.searchMode = "owner" /\ params.ownerIdType \notin {1, 2, 5}
                 THEN {"ownerIdType"} ELSE {})
           \cup (IF params.searchMode = "date" /\ yearErrors(params) # <<>>
                 THEN {"year"} ELSE {})
           \cup (IF params.searchMode = "date" /\ outOfRange(params.deedDateMonth, 1, 12)
                 THEN {"month"} ELSE {})
           \cup (IF params.searchMode = "date" /\ outOfRange(params.deedDateDay, 1, 31)
                 THEN {"day"} ELSE {})
     IN
     /\ validationResult.success <=> violated = {}
     /\ validationResult.success
          => /\ validationResult.errors = <<>>
             /\ validationResult.data = params
     /\ ~validationResult.success
          => /\ validationResult.data = Null
             /\ validationResult.errors # <<>>
             /\ Len(validationResult.errors) = Cardinality(violated)

C21_OneModeOnly ==
  \A i \in LookupReqs :
     LET raw == msg[i].data
         params == extractAllParameters(raw)
         ownerPopulated == params.ownerId # ""
         datePopulated == \/ params.deedDateYear # EmptyText
                          \/ params.deedDateMonth # EmptyText
                          \/ params.deedDateDay # EmptyText
     IN
     validateAndBuildRequest(raw).success
       => /\ params.searchMode = "owner"
               => /\ raw.present \cap DateFields = {}
                  /\ {"ownerIdType", "ownerId"} \subseteq raw.present
          /\ params.searchMode = "date"
               => /\ raw.present \cap {"ownerIdType", "ownerId"} = {}
                  /\ {"deedDateYear", "deedDateMonth", "deedDateDay"} \subseteq raw.present
          /\ ownerPopulated # datePopulated

\* C22 (as stated): the deedNumbers string of a request that passes
\* validation parses to a non-empty sequence, and so does the string the
\* orchestrator parses for it.
C22_ParsedListNonEmpty ==
  \A i \in LookupReqs :
     validateAndBuildRequest(msg[i].data).success
       => /\ parseDeedNumbers(validateAndBuildRequest(msg[i].data).data.deedNumbers) # <<>>
          /\ parseDeedNumbers(
               extractAllParameters(
                 buildInternalMessage(validateAndBuildRequest(msg[i].data))).deedNumbers)
               # <<>>

\* C23: parseDeedNumbers returns the maximal runs of non-separator
\* characters of its input, in input order, duplicates kept: no token is
\* empty or holds a separator, the tokens put together are the input without
\* its separators, and there are as many tokens as runs; the orchestrator
\* fetches exactly these; "123, 456;789:  012" gives 123, 456, 789, 012.
C23_ParsedTokens ==
  LET RECURSIVE Flatten(_)
      Flatten(ts) == IF ts = <<>> THEN <<>> ELSE Head(ts) \o Flatten(Tail(ts))
      RECURSIVE Letters2(_)
      Letters2(str) == IF str = <<>> THEN <<>>
                       ELSE IF Head(str) \in Separators THEN Letters2(Tail(str))
                       ELSE <<Head(str)>> \o Letters2(Tail(str))
      Starts(str) == {k \in 1..Len(str) :
                        /\ str[k] \notin Separators
                        /\ (IF k = 1 THEN TRUE ELSE str[k - 1] \in Separators)}
  IN
  /\ parseDeedNumbers(ExampleString)
       = << <<"1", "2", "3">>, <<"4", "5", "6">>, <<"7", "8", "9">>, <<"0", "1", "2">> >>
  /\ \A i \in Reqs :
       msg[i].kind = "extFetch"
         => LET str == msg[i].data.deedNumbers
                tokens == parseDeedNumbers(str)
            IN
            /\ \A k \in 1..Len(tokens) :
                 tokens[k] # <<>> /\ Range(tokens[k]) \cap Separators = {}
            /\ Flatten(tokens) = Letters2(str)
            /\ Len(tokens) = Cardinality(Starts(str))
            /\ job[i].st = "running" => job[i].deeds = tokens

\* C23, its case: a string that names the same identifier twice, parsed by
\* the orchestrator
C23_DuplicateKept ==
  \E i \in Reqs :
     /\ msg[i].kind = "extFetch"
     /\ job[i].st = "running"
     /\ msg[i].data.deedNumbers = <<"1", ",", "1">>
     /\ job[i].deeds = << <<"1">>, <<"1">> >>

\* C24: the remote call of an owner-mode request goes to the by-owner
\* endpoint with exactly deedNumber, idType and idNumber; the call of a
\* date-mode request goes to the by-number (date) endpoint with exactly
\* deedNumber, the three date components and isHijriDate; whatever fields of
\* the other mode the request carried.
C24_PayloadOfItsMode ==
  \A i \in Reqs :
     job[i].st = "running"
       => LET params == job[i].params
              deedNumber == job[i].deeds[job[i].idx]
              call == job[i].call
          IN
          /\ params.searchMode = "owner"
               => /\ call.apiUrl
                       = "https://prod-inquiryservice-srem.moj.gov.sa/api/v1/DeedInquiry/GetDeedByOwner"
                  /\ DOMAIN call.payload = {"deedNumber", "idType", "idNumber"}
                  /\ call.payload.deedNumber = deedNumber
                  /\ call.payload.idType = params.ownerIdType
                  /\ call.payload.idNumber = params.ownerId
          /\ params.searchMode = "date"
               => /\ call.apiUrl
                       = "https://prod-inquiryservice-srem.moj.gov.sa/api/v1/DeedInquiry/GetDeedByNumber"
                  /\ DOMAIN call.payload
                       = {"deedNumber", "deedDateYear", "deedDateMonth", "deedDateDay",
                          "isHijriDate"}
                  /\ call.payload.deedNumber = deedNumber
                  /\ call.payload.deedDateYear.n = params.deedDateYear.n
                  /\ call.payload.deedDateMonth.n = params.deedDateMonth.n
                  /\ call.payload.deedDateDay.n = params.deedDateDay.n
                  /\ call.payload.isHijriDate = params.isHijriDate

\* C24, its case: calls in flight for an owner-mode request that carried
\* date fields and for a date-mode request that carried owner fields
C24_OtherModeFieldsPresent ==
  \E i, j \in Reqs :
     /\ job[i].st = "running" /\ job[i].params.searchMode = "owner"
     /\ job[i].params.deedDateYear # EmptyText
     /\ job[j].st = "running" /\ job[j].params.searchMode = "date"
     /\ job[j].params.ownerId # ""

\* C25: while the orchestrator works on a request with N parsed deed
\* numbers it has one result for every deed number before the current one,
\* in input order, and the call for the current one is in flight whatever
\* the earlier results were; when it is done it has exactly N results, one
\* per deed number in input order, and sends them all.
C25_OneResultPerDeed ==
  \A i \in Reqs :
     Len(job[i].deeds) > 0
       => LET deeds == job[i].deeds
              results == job[i].results
          IN
          /\ \A k \in 1..Len(results) :
               k <= Len(deeds) /\ results[k].deedNumber = deeds[k]
          /\ job[i].st = "running"
               => /\ job[i].idx = Len(results) + 1
                  /\ job[i].idx <= Len(deeds)
                  /\ job[i].inflight
                  /\ job[i].call.payload.deedNumber = deeds[job[i].idx]
          /\ job[i].st = "done"
               => /\ Len(results) = Len(deeds)
                  /\ job[i].response.results = results

\* C25, its case: two deed numbers, the first call failed, the second
\* succeeded
C25_SecondFetchedAfterFailure ==
  \E i \in Reqs :
     /\ job[i].st = "done"
     /\ Len(job[i].deeds) = 2
     /\ Len(job[i].results) = 2
     /\ ~job[i].results[1].success
     /\ job[i].results[2].success

\* C26: the result of a remote call has success = true exactly when the
\* status was a successful one, the body was JSON and its IsSuccess is true
\* itself; a successful status with any other or no IsSuccess gives success
\* = false with the provider's first error, its first error description, or
\* "Unknown SREM error".
C26_SuccessNeedsBoth ==
  [][\A i \in Reqs : \A outcome \in AllFetchOutcomes :
       FetchCompletes(i, outcome)
         => LET deedNumber == job[i].deeds[job[i].idx]
                result == job'[i].results[Len(job'[i].results)]
                parsed == HttpOk(outcome) /\ outcome # "invalid_json"
                body == Body(deedNumber, outcome)
            IN
            /\ result.success <=> (parsed /\ body.IsSuccess = "true")
            /\ (parsed /\ body.IsSuccess # "true")
                 => /\ ~result.success
                    /\ result.error
                         = (IF body.ErrorList # <<>> THEN body.ErrorList[1]
                            ELSE IF body.ErrorDescription # "" THEN body.ErrorDescription
                            ELSE "Unknown SREM error")]_vars

\* C26, its case: results of a call whose body had a truthy IsSuccess that
\* is not true, and of one whose body had none
C26_FlagNotTrue ==
  \E i, j \in Reqs :
     /\ Len(job[i].results) > 0
     /\ job[i].results[1].data.IsSuccess = "1"
     /\ Len(job[j].results) > 0
     /\ ~job[j].results[1].data.isNull
     /\ job[j].results[1].data.IsSuccess = "undefined"

\* C27 (as stated): every result of the orchestrator has data and no error
\* when success is true, and no data and an error when success is false.
C27_DataXorError ==
  \A i \in Reqs : \A k \in 1..Len(job[i].results) :
     LET result == job[i].results[k] IN
     /\ result.success => ~result.data.isNull /\ result.error = Null
     /\ ~result.success => result.data.isNull /\ result.error # Null

\* the bridge replies made from the results of the remote calls
FetchReplies ==
  {i \in Reqs : /\ msg[i].kind = "lookup"
                /\ job[i].st = "done"
                /\ Len(posted[i]) = 1
                /\ posted[i][1].authStatus \in {"authenticated", "unknown"}}

C29_ErrorOfTheBatch ==
  \A i \in FetchReplies :
     LET results == job[i].response.results
         reply == posted[i][1]
         N == Len(results)
     IN
     IF \E k \in 1..N : results[k].success
     THEN reply.error = Null
     ELSE /\ ~reply.success
          /\ N = 1 => reply.error = results[1].error
          /\ N = 2 => reply.error = "2 deeds failed. First error: " \o results[1].error
          /\ N = 3 => reply.error = "3 deeds failed. First error: " \o results[1].error

\* C29, its case: a reply for three failed results with different errors
C29_ThreeFailed ==
  \E i \in FetchReplies :
     /\ Len(job[i].response.results) = 3
     /\ \A k \in 1..3 : ~job[i].response.results[k].success
     /\ job[i].response.results[1].error # job[i].response.results[2].error
     /\ posted[i][1].metadata.totalFailed = 3

C31_NotAuthenticatedReply ==
  \A i \in LookupReqs :
     (/\ job[i].st = "done"
      /\ job[i].response.error = "Not authenticated. Please login to SREM first.")
       => /\ job[i].results = <<>>
          /\ job[i].call = NoCall
          /\ \A k \in 1..Len(posted[i]) :
               /\ ~posted[i][k].success
               /\ posted[i][k].error # Null

\* C32: an entry of pendingRequests belongs to a lookup request that has
\* that requestId and has not been answered yet (the reply deletes it), and
\* no entry is older than maxAge plus one period of the sweep.
C32_RoutesPurged ==
  \A requestId \in RequestIds :
     pendingRequests[requestId] # NoRoute
       => /\ \E i \in LookupReqs :
               /\ validateAndBuildRequest(msg[i].data).success
               /\ RequestId(i) = requestId
               /\ Len(posted[i]) = 0
          /\ now - pendingRequests[requestId].timestamp <= MaxAgeTicks + SweepTicks

\* C32, its case: the entry of an answered request is gone, and so is the
\* entry of a request that is still waiting for its answer and shares its
\* requestId with no other request (the sweep dropped it)
C32_PurgedAndSwept ==
  \E i, j \in LookupReqs :
     /\ RequestId(i) # RequestId(j)
     /\ Len(posted[i]) = 1 /\ pendingRequests[RequestId(i)] = NoRoute
     /\ Len(posted[j]) = 0 /\ pendingRequests[RequestId(j)] = NoRoute

\* C33 (as stated): when the load made after a restart completes, every
\* entry that was persisted and has not expired (now < expires) is in the
\* in-memory store as it was persisted, and approved; every persisted entry
\* that has expired (now >= expires) is in neither the in-memory store nor
\* the state persisted again.
C33_ReloadKeepsUnexpired ==
  [][init
       => \A o \in Origins :
            LET persisted == load.whitelist[o] IN
            persisted # NoEntry
              => IF now >= persisted.expires
                 THEN domains'[o] = NoEntry /\ storage'[o] = NoEntry
                 ELSE /\ domains'[o] = persisted
                      /\ storage'[o] = persisted
                      /\ isApproved(domains', o, now)]_vars

\* C40 (as stated, for approve): an entry approved between the restart and
\* the completion of the load is, once the load completes, in the in-memory
\* store and in the persisted state.
C40_EarlyApproveKept ==
  [][init
       => \A o \in Origins :
            (domains[o] # NoEntry /\ ~(now > domains[o].expires))
              => domains'[o] = domains[o] /\ storage'[o] = domains[o]]_vars

\* C34 (as stated, the limit of a request): no lookup request causes more
\* than 50 remote calls.
C34_AtMostFiftyCalls ==
  \A i \in LookupReqs :
     Len(job[i].results) + (IF job[i].inflight THEN 1 ELSE 0) <= MaxDeeds

\* C35 (as stated): while an origin stays approved from one state to the
\* next the uses of its entry do not decrease, and a check that finds the
\* origin approved adds exactly one use, sets lastUsed to the clock and
\* persists the store.
C35_UsesOnlyGrow ==
  [][\A o \in Origins :
       /\ (isApproved(domains, o, now) /\ isApproved(domains', o, now'))
            => domains'[o].uses >= domains[o].uses
       /\ \A i \in Reqs :
            (isApproved(domains, o, now)
             /\ (Ping(i, o) \/ RequestApprovalMessage(i, o) \/ IsApprovedCall(o)))
              => /\ domains'[o].uses = domains[o].uses + 1
                 /\ domains'[o].lastUsed = now
                 /\ storage' = domains']_vars

\* C36 (as stated): a lookup request that fails validation and comes from an
\* origin that is not approved goes through the approval check first: the
\* step that handles it starts the approval of the origin and posts no reply
\* with authStatus "validation_error".
C36_TrustBeforeValidation ==
  [][\A i \in Reqs :
       (/\ msg[i].kind = "none"
        /\ msg'[i].kind = "lookup"
        /\ validationErrors(msg'[i].data) # <<>>
        /\ ~isApproved(domains, msg'[i].origin, now))
         => /\ flow'[i] # NoFlow
            /\ \A k \in 1..Len(posted'[i]) :
                 posted'[i][k].authStatus # "validation_error"]_vars

\* C37 (as stated): a ping, an auth-status request or a valid lookup from an
\* origin that is not approved starts an approval flow for that origin; an
\* approve decision for the pending flow approves the origin; and a message
\* whose flow was resolved by the user's approval is served: when its
\* handling is over a ping or auth-status request has its reply and a lookup
\* has been passed on to the mediator as "fetchDeeds".
C37_ApprovedMessageServed ==
  [][\A i \in Reqs :
       /\ (/\ msg[i].kind = "none"
           /\ msg'[i].kind \in {"ping", "auth", "lookup"}
           /\ msg'[i].kind = "lookup" => validationErrors(msg'[i].data) = <<>>
           /\ ~isApproved(domains, msg'[i].origin, now))
            => flow'[i].st = "creating"
       /\ (handleDomainApprovalResponse(i, TRUE) /\ pendingApprovals[msg[i].origin] # 0)
            => isApproved(domains', msg[i].origin, now')
       /\ (flow'[i].result.reason = "user_approved" /\ cpc'[i] = "done")
            => IF msg'[i].kind = "lookup" THEN job'[i] # NoJob
               ELSE posted'[i] # <<>>]_vars

\* C38 (as stated): an approve decision sent from the consent window of a
\* flow that was already resolved by its timeout or by the close of its
\* window changes no entry of the trust store and resolves no other flow.
C38_LateDecisionIgnored ==
  [][\A i \in Reqs :
       (/\ flow[i].result.reason \in {"timeout", "popup_closed"}
        /\ handleDomainApprovalResponse(i, TRUE))
         => /\ domains' = domains
            /\ storage' = storage
            /\ \A j \in Reqs \ {i} : flow'[j].result = flow[j].result]_vars

\* C39 (as stated): an entry of the trust store, in memory or persisted, is
\* created or gets a later expiry only in a step that handles an approve
\* decision for an origin with a pending approval (the reload after a
\* restart may put the persisted entry back in memory); and a decision for
\* an origin with no pending approval leaves the trust store as it was.
C39_OnlyDecisionsCreateTrust ==
  [][\A o \in Origins :
       LET Later(new, old) == new # NoEntry /\ (old = NoEntry \/ new.expires > old.expires)
           decided == \E i \in Reqs : /\ msg[i].origin = o
                                      /\ pendingApprovals[o] # 0
                                      /\ handleDomainApprovalResponse(i, TRUE)
       IN
       /\ Later(storage'[o], storage[o]) => decided
       /\ (Later(domains'[o], domains[o]) /\ domains'[o] # storage[o]) => decided
       /\ \A i \in Reqs : \A approved \in BOOLEAN :
            (/\ msg[i].origin = o
             /\ pendingApprovals[o] = 0
             /\ handleDomainApprovalResponse(i, approved))
              => domains' = domains /\ storage' = storage]_vars

====
